---------------------------- MODULE Spec2Model ----------------------------
(***************************************************************************)
(* A model of pySim/utils.py: the BER-TLV tag and length codecs and the    *)
(* DataObject grammar classes (DataObject, TL0_DataObject,                 *)
(* DataObjectCollection, DataObjectChoice, DataObjectSequence).            *)
(*                                                                         *)
(* Byte strings are sequences of 0..255.  A Python exception is an outcome *)
(* record with ok = FALSE; the state a call changed before it raised stays *)
(* changed, as in Python.                                                  *)
(***************************************************************************)
EXTENDS Integers, Sequences, FiniteSets, TLC

VARIABLES
    \* bertlv_encode_tag / bertlv_parse_tag harness
    tin,        \* the tag dict handed to bertlv_encode_tag
    tpc,        \* position of the encode/parse run
    tag_bytes,  \* bertlv_encode_tag's local tag_bytes
    remain,     \* bertlv_encode_tag's local remain
    tout,       \* what bertlv_parse_tag returned for tag_bytes
    \* DataObject grammar
    decoded,    \* the `decoded` field of every DataObject instance
    encoded,    \* the `encoded` field of every DataObject instance
    last,       \* the call the caller made last, with its argument and outcome
    trips,      \* how many times the caller fed to_tlv's output to from_tlv
    \* two threads decoding on shared grammar nodes
    th,         \* per thread: its call, its locals, its position
    \* grammar construction
    cur         \* the Collection/Choice object most recently constructed

tagVars == <<tin, tpc, tag_bytes, remain, tout>>
doVars == <<decoded, encoded, last, trips>>
vars == <<tin, tpc, tag_bytes, remain, tout, decoded, encoded, last, trips, th, cur>>

(***************************************************************************)
(* Bounds of the model.                                                    *)
(***************************************************************************)
\* largest BER tag number handed to bertlv_encode_tag
MaxTagNum == 300
\* bytes of tag_bytes after which the model stops following a loop that
\* no longer makes progress
MaxTagBytes == 6
\* records and padding bytes per input buffer
MaxItems == 2
\* length of the long value: one that needs the long form of the BER length
LongLen == 129
\* to_tlv/from_tlv round trips the caller makes
MaxTrips == 1
\* members of the largest Collection or Choice composed
MaxMembers == 4
\* largest COMPREHENSION-TLV tag number handed to comprehensiontlv_encode_tag
MaxComprTagNum == 32767
\* bytes of the longest buffer handed to the COMPREHENSION-TLV tag parsers
MaxTagBuffer == 3
\* octets of the largest length handed to bertlv_encode_len
MaxLenOctets == 5
\* bytes of the longest buffer handed to bertlv_parse_len
MaxLenBuffer == 3

(***************************************************************************)
(* Python integer and bytes primitives.                                    *)
(***************************************************************************)
Min(a, b) == IF a < b THEN a ELSE b

RECURSIVE Pow2(_)
Pow2(k) == IF k = 0 THEN 1 ELSE 2 * Pow2(k - 1)

\* x >> k and x << k on non-negative integers
Shr(x, k) == x \div Pow2(k)
Shl(x, k) == x * Pow2(k)

\* int.bit_length()
RECURSIVE BitLength(_)
BitLength(x) == IF x = 0 THEN 0 ELSE 1 + BitLength(x \div 2)

\* a & b
RECURSIVE BitAnd(_, _)
BitAnd(a, b) ==
    IF a = 0 \/ b = 0 THEN 0
    ELSE (a % 2) * (b % 2) + 2 * BitAnd(a \div 2, b \div 2)

\* a | b
RECURSIVE BitOr(_, _)
BitOr(a, b) ==
    IF a = 0 THEN b
    ELSE IF b = 0 THEN a
    ELSE (IF a % 2 = 1 \/ b % 2 = 1 THEN 1 ELSE 0) + 2 * BitOr(a \div 2, b \div 2)

\* a & ~b on Python's unbounded integers, a and b non-negative: the bits of a
\* that are clear in b
RECURSIVE BitAndNot(_, _)
BitAndNot(a, b) ==
    IF a = 0 THEN 0
    ELSE (a % 2) * (1 - (b % 2)) + 2 * BitAndNot(a \div 2, b \div 2)

\* s[lo:hi] and s[lo:] on bytes, lo and hi non-negative
Slice(s, lo, hi) == SubSeq(s, lo + 1, Min(hi, Len(s)))
SliceFrom(s, lo) == SubSeq(s, lo + 1, Len(s))

\* count_int_bytes, nested in bertlv_encode_tag
RECURSIVE count_int_bytes(_)
count_int_bytes(inp) ==
    IF inp \div 256 = 0 THEN 1 ELSE 1 + count_int_bytes(inp \div 256)

\* int.to_bytes(size, 'big') for a value that fits
RECURSIVE IntToBytes(_, _)
IntToBytes(x, size) ==
    IF size = 0 THEN <<>>
    ELSE Append(IntToBytes(x \div 256, size - 1), x % 256)

\* A Python int that may exceed 32 bits (a length) is held as its base-256
\* digits, most significant first, without leading zeros; 0 is <<>>.
RECURSIVE BigNorm(_)
BigNorm(d) == IF d # <<>> /\ d[1] = 0 THEN BigNorm(Tail(d)) ELSE d

\* the Python int n
RECURSIVE Big(_)
Big(n) == IF n = 0 THEN <<>> ELSE Append(Big(n \div 256), n % 256)

\* a < b on lengths of equal digit count
RECURSIVE BigLessDigits(_, _)
BigLessDigits(a, b) ==
    IF a = <<>> THEN FALSE
    ELSE IF a[1] # b[1] THEN a[1] < b[1]
    ELSE BigLessDigits(Tail(a), Tail(b))

\* a < b and a <= b
BigLess(a, b) ==
    IF Len(a) # Len(b) THEN Len(a) < Len(b) ELSE BigLessDigits(a, b)
BigLeq(a, b) == a = b \/ BigLess(a, b)

\* (x << 8) | byte: the low eight bits of x << 8 are clear
BigShl8Or(x, byte) == BigNorm(Append(x, byte))

\* x.to_bytes(size, 'big') for a value that fits
RECURSIVE BigToBytes(_, _)
BigToBytes(x, size) ==
    IF Len(x) >= size THEN x ELSE BigToBytes(<<0>> \o x, size)

\* the index a slice bound x is clamped to in a sequence of n items
BigClamp(x, n) ==
    IF Len(x) > 2 THEN n
    ELSE IF Len(x) = 2 THEN Min(x[1] * 256 + x[2], n)
    ELSE IF Len(x) = 1 THEN Min(x[1], n)
    ELSE 0

(***************************************************************************)
(* BER-TLV tag codec.                                                      *)
(***************************************************************************)
TagDict(cls, constructed, tag) ==
    [class |-> cls, constructed |-> constructed, tag |-> tag]

NoTag == TagDict(0, FALSE, 0)

TagError(e) == [ok |-> FALSE, err |-> e, tag |-> NoTag, rem |-> <<>>]

\* the while loop of bertlv_parse_tag: i is the 0-based index of the next byte
RECURSIVE ParseTagLoop(_, _, _)
ParseTagLoop(binary, i, tag) ==
    IF i >= Len(binary)
    THEN [ok |-> FALSE, err |-> "IndexError", tag |-> 0, i |-> i]
    ELSE IF BitAnd(binary[i + 1], 128) # 0
    THEN ParseTagLoop(binary, i + 1, BitOr(Shl(tag, 7), BitAnd(binary[i + 1], 127)))
    ELSE [ok |-> TRUE, err |-> "", i |-> i + 1,
          tag |-> BitOr(Shl(tag, 7), BitAnd(binary[i + 1], 127))]

\* the multi-byte branch of bertlv_parse_tag, r the outcome of its loop
ParseTagMulti(binary, cls, constructed, r) ==
    IF r.ok
    THEN [ok |-> TRUE, err |-> "", tag |-> TagDict(cls, constructed, r.tag),
          rem |-> SliceFrom(binary, r.i)]
    ELSE TagError(r.err)

\* bertlv_parse_tag once class, constructed flag and low bits are read
ParseTagFirst(binary, cls, constructed, tag) ==
    IF tag <= 30
    THEN [ok |-> TRUE, err |-> "", tag |-> TagDict(cls, constructed, tag),
          rem |-> SliceFrom(binary, 1)]
    ELSE ParseTagMulti(binary, cls, constructed, ParseTagLoop(binary, 1, 0))

bertlv_parse_tag(binary) ==
    IF Len(binary) = 0 THEN TagError("IndexError")
    ELSE ParseTagFirst(binary, Shr(binary[1], 6), BitAnd(binary[1], 32) # 0,
                       BitAnd(binary[1], 31))

\* get_top7_bits once bitcnt is chosen: shift is remain_bits - bitcnt
Top7Cut(inp, shift) ==
    [outp |-> Shr(inp, shift), remainder |-> BitAndNot(inp, Shl(inp, shift))]

Top7Count(inp, remain_bits) ==
    Top7Cut(inp, remain_bits - (IF remain_bits >= 7 THEN 7 ELSE remain_bits))

get_top7_bits(inp) == Top7Count(inp, BitLength(inp))

\* the first tag byte bertlv_encode_tag builds from class, constructed flag
\* and the low five bits
TagFirstByte(low5, constructed, cls) ==
    BitOr(BitOr(low5, IF constructed THEN 32 ELSE 0), Shl(BitAnd(cls, 3), 6))

\* the byte one pass through `while True:` appends, g what get_top7_bits gave
EncodeTagByte(g) ==
    [byte |-> IF g.remainder # 0 THEN BitOr(g.outp, 128) ELSE g.outp,
     remain |-> g.remainder]

\* one pass through the body of `while True:` in bertlv_encode_tag
EncodeTagIter(rem_in) == EncodeTagByte(get_top7_bits(rem_in))

\* the `while True:` loop run to its end.  remainder is inp with some bits
\* cleared, so a pass that leaves remain unchanged repeats for ever: hang.
RECURSIVE EncodeTagLoop(_, _)
RECURSIVE EncodeTagNext(_, _, _)
EncodeTagNext(rem_in, acc, it) ==
    IF it.remain = 0
    THEN [ok |-> TRUE, err |-> "", bytes |-> Append(acc, it.byte)]
    ELSE IF it.remain = rem_in
    THEN [ok |-> FALSE, err |-> "hang", bytes |-> <<>>]
    ELSE EncodeTagLoop(it.remain, Append(acc, it.byte))

EncodeTagLoop(rem_in, acc) == EncodeTagNext(rem_in, acc, EncodeTagIter(rem_in))

\* bertlv_encode_tag on a dict
EncodeTagDict(t) ==
    IF t.tag <= 30
    THEN [ok |-> TRUE, err |-> "",
          bytes |-> <<TagFirstByte(BitAnd(t.tag, 31), t.constructed, t.class)>>]
    ELSE EncodeTagLoop(t.tag, <<TagFirstByte(31, t.constructed, t.class)>>)

\* bertlv_encode_tag on an int, p what bertlv_parse_tag made of its bytes
EncodeTagParsed(p) ==
    IF p.ok THEN EncodeTagDict(p.tag)
    ELSE [ok |-> FALSE, err |-> p.err, bytes |-> <<>>]

\* bertlv_encode_tag on an int: first converted to a dict by bertlv_parse_tag
bertlv_encode_tag(t) ==
    EncodeTagParsed(bertlv_parse_tag(IntToBytes(t, count_int_bytes(t))))

(***************************************************************************)
(* BER-TLV length codec.                                                   *)
(***************************************************************************)
LenBytes(first, length, size) ==
    [ok |-> TRUE, err |-> "", bytes |-> first \o BigToBytes(length, size)]

\* bertlv_encode_len with the four-octet form for every length above 0xff
bertlv_encode_len_wide(length) ==
    IF BigLess(length, <<128>>) THEN LenBytes(<<>>, length, 1)
    ELSE IF BigLeq(length, <<255>>) THEN LenBytes(<<129>>, length, 1)
    ELSE IF BigLeq(length, <<255, 255, 255, 255>>) THEN LenBytes(<<132>>, length, 4)
    ELSE [ok |-> FALSE, err |-> "ValueError", bytes |-> <<>>]

bertlv_encode_len(length) ==
    IF BigLess(length, <<128>>) THEN LenBytes(<<>>, length, 1)
    ELSE IF BigLeq(length, <<255>>) THEN LenBytes(<<129>>, length, 1)
    ELSE IF BigLeq(length, <<255, 255>>) THEN LenBytes(<<130>>, length, 2)
    ELSE IF BigLeq(length, <<255, 255, 255>>) THEN LenBytes(<<131>>, length, 3)
    ELSE IF BigLeq(length, <<255, 255, 255, 255>>) THEN LenBytes(<<132>>, length, 4)
    ELSE [ok |-> FALSE, err |-> "ValueError", bytes |-> <<>>]

\* the for loop of bertlv_parse_len: length <<= 8; length |= binary[i]
RECURSIVE ParseLenLoop(_, _, _, _)
ParseLenLoop(binary, i, last_i, length) ==
    IF i > last_i THEN length
    ELSE ParseLenLoop(binary, i + 1, last_i, BigShl8Or(length, binary[i + 1]))

\* the long form with a loop that stops one octet early
ParseLenLong_short(binary, num_len_oct) ==
    IF Len(binary) < num_len_oct + 1
    THEN [ok |-> TRUE, err |-> "", length |-> Big(0), rem |-> <<>>]
    ELSE [ok |-> TRUE, err |-> "",
          length |-> ParseLenLoop(binary, 1, num_len_oct - 1, Big(0)),
          rem |-> SliceFrom(binary, 1 + num_len_oct)]

\* the long form of bertlv_parse_len
ParseLenLong(binary, num_len_oct) ==
    IF Len(binary) < num_len_oct + 1
    THEN [ok |-> TRUE, err |-> "", length |-> Big(0), rem |-> <<>>]
    ELSE [ok |-> TRUE, err |-> "",
          length |-> ParseLenLoop(binary, 1, num_len_oct, Big(0)),
          rem |-> SliceFrom(binary, 1 + num_len_oct)]

bertlv_parse_len(binary) ==
    IF Len(binary) = 0
    THEN [ok |-> FALSE, err |-> "IndexError", length |-> Big(0), rem |-> <<>>]
    ELSE IF binary[1] < 128
    THEN [ok |-> TRUE, err |-> "", length |-> Big(binary[1]), rem |-> SliceFrom(binary, 1)]
    ELSE ParseLenLong(binary, BitAnd(binary[1], 127))

\* bertlv_parse_one / comprehensiontlv_parse_one after bertlv_parse_len:
\* value = remainder[:length]; remainder = remainder[length:]
\* an outcome of bertlv_parse_tag_raw: none says the tag returned is None, and
\* the tag is held as base-256 digits
BerRawError(e) == [ok |-> FALSE, err |-> e, none |-> FALSE, tag |-> <<>>, rem |-> <<>>]

\* the loop of bertlv_parse_tag_raw from index i on
RECURSIVE RawTagLoop(_, _, _)
RawTagLoop(binary, i, tag) ==
    IF i >= Len(binary)
    THEN [ok |-> FALSE, err |-> "IndexError", tag |-> <<>>, i |-> i]
    ELSE IF BitAnd(binary[i + 1], 128) # 0
    THEN RawTagLoop(binary, i + 1, BigShl8Or(tag, binary[i + 1]))
    ELSE [ok |-> TRUE, err |-> "", i |-> i + 1, tag |-> BigShl8Or(tag, binary[i + 1])]

\* the multi-byte branch of bertlv_parse_tag_raw, r the outcome of its loop
RawTagMulti(binary, r) ==
    IF r.ok
    THEN [ok |-> TRUE, err |-> "", none |-> FALSE, tag |-> r.tag,
          rem |-> SliceFrom(binary, r.i)]
    ELSE BerRawError(r.err)

\* bertlv_parse_tag_raw behind the test for padding
RawTagFirst(binary) ==
    IF BitAnd(binary[1], 31) <= 30
    THEN [ok |-> TRUE, err |-> "", none |-> FALSE, tag |-> Big(binary[1]),
          rem |-> SliceFrom(binary, 1)]
    ELSE RawTagMulti(binary, RawTagLoop(binary, 1, Big(binary[1])))

\* bertlv_parse_tag_raw that takes only a lone 0xFF for padding
bertlv_parse_tag_raw_lone(binary) ==
    IF Len(binary) = 0 THEN BerRawError("IndexError")
    ELSE IF binary[1] = 255 /\ Len(binary) = 1
    THEN [ok |-> TRUE, err |-> "", none |-> TRUE, tag |-> <<>>, rem |-> binary]
    ELSE RawTagFirst(binary)

bertlv_parse_tag_raw(binary) ==
    IF Len(binary) = 0 THEN BerRawError("IndexError")
    ELSE IF \/ binary[1] = 255 /\ Len(binary) = 1
            \/ binary[1] = 255 /\ binary[2] = 255
    THEN [ok |-> TRUE, err |-> "", none |-> TRUE, tag |-> <<>>, rem |-> binary]
    ELSE RawTagFirst(binary)

\* bertlv_parse_one that returns all that follows the length as remainder
ParseOneValue_whole(tagdict, l) ==
    IF ~l.ok
    THEN [ok |-> FALSE, err |-> l.err, tag |-> tagdict, length |-> Big(0),
          value |-> <<>>, rem |-> <<>>]
    ELSE [ok |-> TRUE, err |-> "", tag |-> tagdict, length |-> l.length,
          value |-> Slice(l.rem, 0, BigClamp(l.length, Len(l.rem))),
          rem |-> l.rem]

ParseOneValue(tagdict, l) ==
    IF ~l.ok
    THEN [ok |-> FALSE, err |-> l.err, tag |-> tagdict, length |-> Big(0),
          value |-> <<>>, rem |-> <<>>]
    ELSE [ok |-> TRUE, err |-> "", tag |-> tagdict, length |-> l.length,
          value |-> Slice(l.rem, 0, BigClamp(l.length, Len(l.rem))),
          rem |-> SliceFrom(l.rem, BigClamp(l.length, Len(l.rem)))]

\* bertlv_parse_one / comprehensiontlv_parse_one after the tag is parsed
ParseOneLen(t) ==
    IF ~t.ok
    THEN [ok |-> FALSE, err |-> t.err, tag |-> t.tag, length |-> Big(0),
          value |-> <<>>, rem |-> <<>>]
    ELSE ParseOneValue(t.tag, bertlv_parse_len(t.rem))

bertlv_parse_one(binary) == ParseOneLen(bertlv_parse_tag(binary))

(***************************************************************************)
(* Card commands.  A string is a sequence of one-character strings; the     *)
(* class byte handed to lookup is None, an int or a string.                 *)
(***************************************************************************)
HexChars == <<"0", "1", "2", "3", "4", "5", "6", "7", "8", "9",
              "a", "b", "c", "d", "e", "f">>

ClaNone == [k |-> "None", n |-> 0, s |-> <<>>]
ClaInt(n) == [k |-> "int", n |-> n, s |-> <<>>]
ClaString(s) == [k |-> "str", n |-> 0, s |-> s]

\* str.lower() on one character and on a string
LowerChar(ch) ==
    CASE ch = "A" -> "a" [] ch = "B" -> "b" [] ch = "C" -> "c"
      [] ch = "D" -> "d" [] ch = "E" -> "e" [] ch = "F" -> "f"
      [] ch = "X" -> "x" [] OTHER -> ch
LowerStr(str) == [i \in 1..Len(str) |-> LowerChar(str[i])]

\* the decimal digits of n
RECURSIVE DecDigits(_)
DecDigits(n) ==
    IF n < 10 THEN <<HexChars[n + 1]>>
    ELSE Append(DecDigits(n \div 10), HexChars[(n % 10) + 1])

\* '%02u' % n
Format02u(n) == IF n < 10 THEN <<"0">> \o DecDigits(n) ELSE DecDigits(n)

\* CardCommand.__init__
CardCommand(name, ins, cla_list) ==
    [name |-> name, ins |-> ins,
     cla_list |-> [i \in 1..Len(cla_list) |-> LowerStr(cla_list[i])]]

\* the string match_cla compares with the patterns
ClaText(cla) == LowerStr(IF cla.k = "str" THEN cla.s ELSE Format02u(cla.n))

\* cla_masked as match_cla builds it for the pattern cla_match
cla_masked(cla_match, cla) ==
    [i \in 1..2 |-> IF cla_match[i] = "x" THEN "x" ELSE cla[i]]

match_cla(self, cla) ==
    \E i \in 1..Len(self.cla_list) :
        cla_masked(self.cla_list[i], ClaText(cla)) = self.cla_list[i]

\* CardCommandSet.__init__: the commands keyed by their ins
CardCommandSet(name, cmds) ==
    [name |-> name,
     cmds |-> [i \in { c.ins : c \in cmds } |-> CHOOSE c \in cmds : c.ins = i]]

\* CardCommandSet.lookup: <<>> is None, <<cmd>> the command; None, 0 and the
\* empty string are false in `if cla`
lookup(self, ins, cla) ==
    IF ins \notin DOMAIN self.cmds THEN <<>>
    ELSE IF /\ (cla.k = "int" /\ cla.n # 0) \/ (cla.k = "str" /\ cla.s # <<>>)
            /\ ~match_cla(self.cmds[ins], cla)
    THEN <<>>
    ELSE <<self.cmds[ins]>>

(***************************************************************************)
(* COMPREHENSION-TLV tag codec.                                            *)
(***************************************************************************)
ComprTag(compr, tag) == [comprehension |-> compr, tag |-> tag]

ComprTagError(e) == [ok |-> FALSE, err |-> e, tag |-> ComprTag(FALSE, 0), rem |-> <<>>]

\* an outcome of comprehensiontlv_parse_tag_raw: none says the tag returned is
\* None
RawTagError(e) == [ok |-> FALSE, err |-> e, none |-> FALSE, tag |-> 0, rem |-> <<>>]

comprehensiontlv_parse_tag_raw(binary) ==
    IF Len(binary) = 0 THEN RawTagError("IndexError")
    ELSE IF binary[1] \in {0, 128, 255} THEN RawTagError("ValueError")
    ELSE IF binary[1] = 127
    THEN IF Len(binary) < 3 THEN RawTagError("IndexError")
         ELSE [ok |-> TRUE, err |-> "", none |-> FALSE,
               tag |-> BitOr(BitOr(Shl(binary[1], 16), Shl(binary[2], 8)), binary[3]),
               rem |-> SliceFrom(binary, 3)]
    ELSE IF binary[1] = 255
    THEN [ok |-> TRUE, err |-> "", none |-> TRUE, tag |-> 0, rem |-> binary]
    ELSE [ok |-> TRUE, err |-> "", none |-> FALSE, tag |-> binary[1],
          rem |-> SliceFrom(binary, 1)]

\* comprehensiontlv_parse_tag without the test for the illegal first bytes
comprehensiontlv_parse_tag_any(binary) ==
    IF Len(binary) = 0 THEN ComprTagError("IndexError")
    ELSE IF binary[1] = 127
    THEN IF Len(binary) < 3 THEN ComprTagError("IndexError")
         ELSE [ok |-> TRUE, err |-> "",
               tag |-> ComprTag(BitAnd(binary[2], 128) # 0,
                                BitOr(Shl(BitAnd(binary[2], 127), 8), binary[3])),
               rem |-> SliceFrom(binary, 3)]
    ELSE [ok |-> TRUE, err |-> "",
          tag |-> ComprTag(BitAnd(binary[1], 128) # 0, BitAnd(binary[1], 127)),
          rem |-> SliceFrom(binary, 1)]

comprehensiontlv_parse_tag(binary) ==
    IF Len(binary) = 0 THEN ComprTagError("IndexError")
    ELSE IF binary[1] \in {0, 128, 255} THEN ComprTagError("ValueError")
    ELSE IF binary[1] = 127
    THEN IF Len(binary) < 3 THEN ComprTagError("IndexError")
         ELSE [ok |-> TRUE, err |-> "",
               tag |-> ComprTag(BitAnd(binary[2], 128) # 0,
                                BitOr(Shl(BitAnd(binary[2], 127), 8), binary[3])),
               rem |-> SliceFrom(binary, 3)]
    ELSE [ok |-> TRUE, err |-> "",
          tag |-> ComprTag(BitAnd(binary[1], 128) # 0, BitAnd(binary[1], 127)),
          rem |-> SliceFrom(binary, 1)]

\* comprehensiontlv_encode_tag, the conversion of an integer argument
ComprTagOfInt(tag) == ComprTag(tag < 255 /\ BitAnd(tag, 128) # 0, tag)

\* comprehensiontlv_encode_tag of a dict
comprehensiontlv_encode_tag(tag) ==
    IF tag.tag \in {0, 128, 255} \/ tag.tag > 255
    THEN <<127>>
         \o IntToBytes(IF tag.comprehension
                       THEN BitOr(BitAnd(Shr(tag.tag, 8), 127), 128)
                       ELSE BitAnd(Shr(tag.tag, 8), 127), 1)
         \o IntToBytes(BitAnd(tag.tag, 255), 1)
    ELSE IntToBytes(IF tag.comprehension THEN BitOr(tag.tag, 128) ELSE tag.tag, 1)

comprehensiontlv_parse_one(binary) == ParseOneLen(comprehensiontlv_parse_tag(binary))

(***************************************************************************)
(* DGI length codec.                                                       *)
(***************************************************************************)
dgi_encode_len(length) ==
    IF length < 255 THEN [ok |-> TRUE, err |-> "", bytes |-> IntToBytes(length, 1)]
    ELSE IF length <= 65535
    THEN [ok |-> TRUE, err |-> "", bytes |-> <<255>> \o IntToBytes(length, 2)]
    ELSE [ok |-> FALSE, err |-> "ValueError", bytes |-> <<>>]

dgi_parse_len(binary) ==
    IF Len(binary) = 0
    THEN [ok |-> FALSE, err |-> "IndexError", length |-> 0, rem |-> <<>>]
    ELSE IF binary[1] = 255
    THEN IF Len(binary) < 3
         THEN [ok |-> FALSE, err |-> "AssertionError", length |-> 0, rem |-> <<>>]
         ELSE [ok |-> TRUE, err |-> "",
               length |-> BitOr(Shl(binary[2], 8), binary[3]),
               rem |-> SliceFrom(binary, 3)]
    ELSE [ok |-> TRUE, err |-> "", length |-> binary[1], rem |-> SliceFrom(binary, 1)]

(***************************************************************************)
(* DataObject instances.  Each is named by its `name`; "a" is an instance  *)
(* of a concrete DataObject subclass whose from_bytes keeps the value      *)
(* bytes in `decoded` and whose to_bytes returns them, "b" and "c" are     *)
(* TL0_DataObject instances.  "a" and "c" are declared with the same tag.  *)
(***************************************************************************)
LeafNames == {"a", "b", "c"}

\* the tag each leaf is declared with; "d" is a leaf with the two-byte tag 0x5F20
LeafTag(n) == CASE n = "a" -> 160 [] n = "b" -> 176 [] n = "c" -> 160 [] n = "d" -> 24352

LeafClass(n) == IF n = "a" THEN "BytesDO" ELSE "TL0_DataObject"

\* Python values held in `decoded`: None, a bytes object, or the `val` object
\* a TL0_DataObject was constructed with
None == [k |-> "None", b |-> <<>>, id |-> ""]
BytesVal(s) == [k |-> "bytes", b |-> s, id |-> ""]
LeafVal(n) == [k |-> "object", b |-> <<>>, id |-> n]

\* DataObject.__init__: decoded and encoded start as None
InitDecoded == [n \in LeafNames |-> None]
InitEncoded == [n \in LeafNames |-> None]

\* DataObject.to_dict: the dict {name: decoded}, as its list of items
to_dict(n, dec) == << [name |-> n, decoded |-> dec[n]] >>

\* from_bytes: stores into self.decoded, or raises
from_bytes(n, val, dec) ==
    IF LeafClass(n) = "TL0_DataObject"
    THEN IF Len(val) # 0
         THEN [ok |-> FALSE, err |-> "ValueError", dec |-> dec]
         ELSE [ok |-> TRUE, err |-> "", dec |-> [dec EXCEPT ![n] = LeafVal(n)]]
    ELSE [ok |-> TRUE, err |-> "", dec |-> [dec EXCEPT ![n] = BytesVal(val)]]

\* to_bytes: the value part from the instance's state
to_bytes(n, dec) ==
    IF LeafClass(n) = "TL0_DataObject"
    THEN [ok |-> TRUE, err |-> "", bytes |-> <<>>]
    ELSE IF dec[n].k = "bytes"
    THEN [ok |-> TRUE, err |-> "", bytes |-> dec[n].b]
    ELSE [ok |-> FALSE, err |-> "TypeError", bytes |-> <<>>]

\* an outcome of a decoding call: the returned result and remainder, or the
\* exception; dec is the `decoded` fields after the call; calls lists the
\* from_bytes invocations made (the instance, the first byte of the buffer
\* its from_tlv was given, the value bytes handed over)
Raise(e, dec, calls) ==
    [ok |-> FALSE, err |-> e, res |-> <<>>, rem |-> <<>>, dec |-> dec, calls |-> calls]
Return(res, rem, dec, calls) ==
    [ok |-> TRUE, err |-> "", res |-> res, rem |-> rem, dec |-> dec, calls |-> calls]

\* from_tlv after self.from_bytes(val): return the remaining bytes
FromTlvDone(n, do, length, val, fb) ==
    IF fb.ok
    THEN Return(<<>>, SliceFrom(do, 2 + length), fb.dec,
                << [leaf |-> n, do0 |-> do[1], val |-> val] >>)
    ELSE Raise(fb.err, fb.dec, << [leaf |-> n, do0 |-> do[1], val |-> val] >>)

\* from_tlv from `length = do[1]` on
FromTlvValue(n, do, dec, length, val) ==
    FromTlvDone(n, do, length, val, from_bytes(n, val, dec))

\* from_tlv without the comparison of do[0] with the tag of the instance
from_tlv_unchecked(n, do, dec) ==
    IF Len(do) < 2 THEN Raise("IndexError", dec, <<>>)
    ELSE FromTlvValue(n, do, dec, do[2], Slice(do, 2, 2 + do[2]))

\* DataObject.from_tlv
from_tlv(n, do, dec) ==
    IF Len(do) = 0 THEN Raise("IndexError", dec, <<>>)
    ELSE IF do[1] # LeafTag(n) THEN Raise("ValueError", dec, <<>>)
    ELSE IF Len(do) < 2 THEN Raise("IndexError", dec, <<>>)
    ELSE FromTlvValue(n, do, dec, do[2], Slice(do, 2, 2 + do[2]))

EncError(e) == [ok |-> FALSE, err |-> e, bytes |-> <<>>]

\* the concatenation to_tlv returns: val from to_bytes, t the encoded tag,
\* l the encoded length
ToTlvJoin(val, t, l) ==
    IF ~t.ok THEN EncError(t.err)
    ELSE IF ~l.ok THEN EncError(l.err)
    ELSE [ok |-> TRUE, err |-> "", bytes |-> t.bytes \o l.bytes \o val.bytes]

\* to_tlv after `val = self.to_bytes()`
ToTlvValue(n, val) ==
    IF ~val.ok THEN EncError(val.err)
    ELSE ToTlvJoin(val, bertlv_encode_tag(LeafTag(n)), bertlv_encode_len(Big(Len(val.bytes))))

\* DataObject.to_tlv
to_tlv(n, dec) == ToTlvValue(n, to_bytes(n, dec))

\* DataObject.decode after from_tlv
LeafDecodeDone(n, r) ==
    IF r.ok THEN Return(<<to_dict(n, r.dec)>>, r.rem, r.dec, r.calls) ELSE r

\* what DataObject.decode does with the first byte
LeafHead(n, binary) ==
    IF Len(binary) = 0 THEN "index_error"
    ELSE IF binary[1] # LeafTag(n) THEN "raise"
    ELSE "dispatch"

\* DataObject.decode
DataObject_decode(n, binary, dec) ==
    CASE LeafHead(n, binary) = "index_error" -> Raise("IndexError", dec, <<>>)
      [] LeafHead(n, binary) = "raise" -> Raise("ValueError", dec, <<>>)
      [] OTHER -> LeafDecodeDone(n, from_tlv(n, binary, dec))

(***************************************************************************)
(* DataObjectCollection and DataObjectChoice.                              *)
(***************************************************************************)
\* {m.tag: m for m in members}: a later member replaces an earlier one
members_by_tag(members) ==
    [t \in {LeafTag(members[i]) : i \in DOMAIN members} |->
        members[CHOOSE i \in DOMAIN members :
                    /\ LeafTag(members[i]) = t
                    /\ \A j \in DOMAIN members : j > i => LeafTag(members[j]) # t]]

\* {m.name: m for m in members}
members_by_name(members) ==
    [n \in {members[i] : i \in DOMAIN members} |-> n]

\* DataObjectCollection.__init__ (DataObjectChoice inherits it)
NewCollection(cls, members) ==
    [class |-> cls, members |-> members,
     members_by_tag |-> members_by_tag(members),
     members_by_name |-> members_by_name(members)]

\* a DataObject instance as an operand or a sequence element
LeafNode(n) == [class |-> "DataObject", name |-> n]

\* a raised TypeError in place of the object an operator would return
TypeError == [class |-> "TypeError"]

\* DataObject.__add__ and DataObject.__or__
DataObject_add(self, other) ==
    IF other.class = "DataObject"
    THEN NewCollection("DataObjectCollection", <<self, other.name>>)
    ELSE TypeError
DataObject_or(self, other) ==
    IF other.class = "DataObject"
    THEN NewCollection("DataObjectChoice", <<self, other.name>>)
    ELSE TypeError

\* the while loop of DataObjectCollection.decode
RECURSIVE CollectionLoop(_, _, _, _, _)
RECURSIVE CollectionStep(_, _, _, _, _)
\* the loop body after obj.from_tlv(remainder) gave r
CollectionStep(c, res, calls, obj, r) ==
    IF ~r.ok THEN Raise(r.err, r.dec, calls \o r.calls)
    ELSE CollectionLoop(c, r.rem, res \o <<to_dict(obj, r.dec)>>, r.dec,
                        calls \o r.calls)

\* one pass of the loop without the test for the 0xFF byte
CollectionHead_no_sentinel(c, remainder) ==
    IF Len(remainder) = 0 THEN "return"
    ELSE IF remainder[1] \notin DOMAIN c.members_by_tag THEN "raise"
    ELSE "dispatch"

\* what one pass of the loop does with the next tag byte
CollectionHead(c, remainder) ==
    IF Len(remainder) = 0 THEN "return"
    ELSE IF remainder[1] = 255 THEN "return"
    ELSE IF remainder[1] \notin DOMAIN c.members_by_tag THEN "raise"
    ELSE "dispatch"

CollectionLoop(c, remainder, res, dec, calls) ==
    CASE CollectionHead(c, remainder) = "return" -> Return(res, remainder, dec, calls)
      [] CollectionHead(c, remainder) = "raise" -> Raise("ValueError", dec, calls)
      [] OTHER ->
            CollectionStep(c, res, calls, c.members_by_tag[remainder[1]],
                           from_tlv(c.members_by_tag[remainder[1]], remainder, dec))

\* DataObjectCollection.decode
Collection_decode(c, binary, dec) == CollectionLoop(c, binary, <<>>, dec, <<>>)

\* DataObjectChoice.decode after obj.from_tlv(binary) gave r
ChoiceDecodeDone(obj, r) ==
    IF r.ok THEN Return(<<to_dict(obj, r.dec)>>, r.rem, r.dec, r.calls) ELSE r

\* what DataObjectChoice.decode does with the first byte
ChoiceHead(c, binary) ==
    IF Len(binary) = 0 THEN "index_error"
    ELSE IF binary[1] = 255 THEN "return"
    ELSE IF binary[1] \notin DOMAIN c.members_by_tag THEN "raise"
    ELSE "dispatch"

\* DataObjectChoice.decode; the result None is the empty list of results
Choice_decode(c, binary, dec) ==
    CASE ChoiceHead(c, binary) = "index_error" -> Raise("IndexError", dec, <<>>)
      [] ChoiceHead(c, binary) = "return" -> Return(<<>>, binary, dec, <<>>)
      [] ChoiceHead(c, binary) = "raise" -> Raise("ValueError", dec, <<>>)
      [] OTHER ->
            ChoiceDecodeDone(c.members_by_tag[binary[1]],
                             from_tlv(c.members_by_tag[binary[1]], binary, dec))

\* an outcome of an encoding call
RaiseEnc(e, dec) == [ok |-> FALSE, err |-> e, bytes |-> <<>>, dec |-> dec]
ReturnEnc(bytes, dec) == [ok |-> TRUE, err |-> "", bytes |-> bytes, dec |-> dec]

\* DataObjectChoice.encode after `obj.decoded = ...`: return obj.to_tlv()
ChoiceEncodeDone(dec2, t) ==
    IF t.ok THEN ReturnEnc(t.bytes, dec2) ELSE RaiseEnc(t.err, dec2)

\* DataObjectChoice.encode with obj looked up: store the value, then encode
ChoiceEncodeMember(obj, dec2) == ChoiceEncodeDone(dec2, to_tlv(obj, dec2))

\* DataObjectChoice.encode; d is a dict as its list of items
Choice_encode(c, d, dec) ==
    IF Len(d) = 0 THEN RaiseEnc("IndexError", dec)
    ELSE IF d[1].name \notin DOMAIN c.members_by_name THEN RaiseEnc("KeyError", dec)
    ELSE ChoiceEncodeMember(c.members_by_name[d[1].name],
                            [dec EXCEPT ![c.members_by_name[d[1].name]] = d[1].decoded])

\* DataObjectCollection.encode; d is the list of (name, value) entries.  The
\* first pass of its loop calls the dict self.members_by_name, which raises
\* TypeError; only an empty list gets to `return res`
Collection_encode(c, d, dec) ==
    IF Len(d) = 0 THEN ReturnEnc(<<>>, dec) ELSE RaiseEnc("TypeError", dec)

(***************************************************************************)
(* DataObjectSequence.                                                     *)
(***************************************************************************)
\* DataObjectSequence.__init__
NewSequence(sequence) == [class |-> "DataObjectSequence", sequence |-> sequence]

\* e.decode(remainder) for an element of a sequence
Element_decode(e, binary, dec) ==
    IF e.class = "DataObject" THEN DataObject_decode(e.name, binary, dec)
    ELSE Choice_decode(e, binary, dec)

\* the for loop of DataObjectSequence.decode, from element i on
RECURSIVE SequenceLoop(_, _, _, _, _, _)
RECURSIVE SequenceStep(_, _, _, _, _)
\* the loop body after e.decode(remainder) gave r
SequenceStep(s, i, res, calls, r) ==
    IF ~r.ok THEN Raise(r.err, r.dec, calls \o r.calls)
    ELSE SequenceLoop(s, i + 1, r.rem, IF r.res # <<>> THEN res \o r.res ELSE res,
                      r.dec, calls \o r.calls)

SequenceLoop(s, i, remainder, res, dec, calls) ==
    IF i > Len(s.sequence) THEN Return(res, remainder, dec, calls)
    ELSE SequenceStep(s, i, res, calls, Element_decode(s.sequence[i], remainder, dec))

\* DataObjectSequence.decode
Sequence_decode(s, binary, dec) == SequenceLoop(s, 1, binary, <<>>, dec, <<>>)

\* the while loop of DataObjectSequence.decode_multi
RECURSIVE MultiLoop(_, _, _, _, _)
RECURSIVE MultiStep(_, _, _, _, _)
\* the loop body after self.decode(remainder) gave r
MultiStep(s, remainder, res, calls, r) ==
    IF ~r.ok THEN Raise(r.err, r.dec, calls \o r.calls)
    ELSE IF Len(r.rem) < Len(remainder)
    THEN MultiLoop(s, r.rem, IF r.res # <<>> THEN Append(res, r.res) ELSE res,
                   r.dec, calls \o r.calls)
    ELSE Return(IF r.res # <<>> THEN Append(res, r.res) ELSE res, r.rem, r.dec,
                calls \o r.calls)

MultiLoop(s, remainder, res, dec, calls) ==
    IF Len(remainder) = 0 THEN Return(res, remainder, dec, calls)
    ELSE MultiStep(s, remainder, res, calls, Sequence_decode(s, remainder, dec))

\* DataObjectSequence.decode_multi
Sequence_decode_multi(s, do, dec) == MultiLoop(s, do, <<>>, dec, <<>>)

\* e.encode(decoded[i]): DataObject.encode takes no argument besides self
Element_encode(e, d, dec) ==
    IF e.class = "DataObject" THEN RaiseEnc("TypeError", dec)
    ELSE Choice_encode(e, d, dec)

\* the for loop of DataObjectSequence.encode, from element i on
RECURSIVE SequenceEncLoop(_, _, _, _, _)
RECURSIVE SequenceEncStep(_, _, _, _, _)
\* the loop body after e.encode(decoded[i]) gave r
SequenceEncStep(s, i, d, acc, r) ==
    IF ~r.ok THEN r ELSE SequenceEncLoop(s, i + 1, d, acc \o r.bytes, r.dec)

SequenceEncLoop(s, i, d, acc, dec) ==
    IF i > Len(s.sequence) THEN ReturnEnc(acc, dec)
    ELSE IF i > Len(d) THEN RaiseEnc("IndexError", dec)
    ELSE SequenceEncStep(s, i, d, acc, Element_encode(s.sequence[i], d[i], dec))

\* DataObjectSequence.encode
Sequence_encode(s, d, dec) == SequenceEncLoop(s, 1, d, <<>>, dec)

\* the for loop of DataObjectSequence.encode_multi, from repetition i on
RECURSIVE MultiEncLoop(_, _, _, _, _)
RECURSIVE MultiEncStep(_, _, _, _, _)
\* the loop body after self.encode(d) gave r
MultiEncStep(s, i, d, acc, r) ==
    IF ~r.ok THEN r ELSE MultiEncLoop(s, i + 1, d, acc \o r.bytes, r.dec)

MultiEncLoop(s, i, d, acc, dec) ==
    IF i > Len(d) THEN ReturnEnc(acc, dec)
    ELSE MultiEncStep(s, i, d, acc, Sequence_encode(s, d[i], dec))

\* DataObjectSequence.encode_multi
Sequence_encode_multi(s, d, dec) == MultiEncLoop(s, 1, d, <<>>, dec)


IsCollection(x) == x.class \in {"DataObjectCollection", "DataObjectChoice"}

\* DataObjectCollection.__add__
Collection_add(self, other) ==
    IF IsCollection(other)
    THEN NewCollection("DataObjectCollection", self.members \o other.members)
    ELSE IF other.class = "DataObject"
    THEN NewCollection("DataObjectCollection", Append(self.members, other.name))
    ELSE TypeError

\* DataObjectChoice.__or__
Choice_or(self, other) ==
    IF other.class = "DataObjectChoice"
    THEN NewCollection("DataObjectChoice", self.members \o other.members)
    ELSE IF other.class = "DataObject"
    THEN NewCollection("DataObjectChoice", Append(self.members, other.name))
    ELSE TypeError

\* DataObjectChoice.__add__
Choice_add(self, other) == TypeError

\* DataObjectSequence.__add__: isinstance is called with a str as its second
\* argument, which is a TypeError whatever `other` is
Sequence_add(self, other) == TypeError

(***************************************************************************)
(* The grammar the decoding and encoding calls run on, and their inputs.   *)
(***************************************************************************)
CollAB == DataObject_add("a", LeafNode("b"))
ChoiceAB == DataObject_or("a", LeafNode("b"))
SeqAB == NewSequence(<<LeafNode("a"), LeafNode("b")>>)
SeqChoices == NewSequence(<<ChoiceAB, ChoiceAB>>)

Collections == {CollAB}
Choices == {ChoiceAB}
Sequences == {SeqAB, SeqChoices}

Fill(n) == [i \in 1..n |-> 7]

\* one TLV record in canonical form: tag byte, minimal BER length, value
Rec(tag, val) == [pad |-> FALSE, tag |-> tag, val |-> val]
Pad == [pad |-> TRUE, tag |-> 255, val |-> <<>>]
ItemBytes(it) ==
    IF it.pad THEN <<255>>
    ELSE <<it.tag>> \o bertlv_encode_len(Big(Len(it.val))).bytes \o it.val

\* records of "a" (tag 0xA0), of "b" (tag 0xB0), of a tag no instance has
\* (0xC1), and the 0xFF padding byte
Items ==
    { Rec(160, <<>>), Rec(160, <<7>>), Rec(160, Fill(LongLen)),
      Rec(176, <<>>), Rec(176, <<7>>), Rec(193, <<>>), Pad }

RECURSIVE ItemLists(_)
ItemLists(n) ==
    IF n = 0 THEN {<<>>}
    ELSE LET shorter == ItemLists(n - 1)
         IN  shorter \cup { Append(l, it) : l \in shorter, it \in Items }

RECURSIVE Flatten(_)
Flatten(items) ==
    IF items = <<>> THEN <<>>
    ELSE ItemBytes(Head(items)) \o Flatten(Tail(items))

\* the input buffers: every list of up to MaxItems items, and two buffers
\* that end inside a record
Inputs ==
    { [wf |-> TRUE, items |-> l, buf |-> Flatten(l)] : l \in ItemLists(MaxItems) }
    \cup { [wf |-> FALSE, items |-> <<>>, buf |-> b] : b \in {<<160>>, <<160, 5, 1>>} }

\* the dicts handed to DataObjectChoice.encode
EncodeDicts ==
    { << [name |-> "a", decoded |-> BytesVal(v)] >> : v \in {<<>>, <<7>>, Fill(LongLen)} }
    \cup { << [name |-> "b", decoded |-> LeafVal("b")] >>,
           << [name |-> "c", decoded |-> LeafVal("c")] >>, <<>>,
           << [name |-> "a", decoded |-> BytesVal(<<7>>)],
              [name |-> "b", decoded |-> LeafVal("b")] >> }

(***************************************************************************)
(* Calls on the grammar, one after the other.  Each action is one call run *)
(* to its return or its exception; `last` keeps the argument and outcome.  *)
(***************************************************************************)
Idle == [op |-> "idle"]

DoIdle ==
    /\ decoded = InitDecoded
    /\ encoded = InitEncoded
    /\ last = Idle
    /\ trips = 0

\* the caller lets go of the outcome of its last call
DropResult ==
    /\ last # Idle
    /\ last' = Idle
    /\ UNCHANGED <<decoded, encoded, trips, tagVars, th, cur>>

CallFromTlv ==
    /\ last = Idle
    /\ \E n \in LeafNames, in \in Inputs :
          LET r == from_tlv(n, in.buf, decoded)
          IN  /\ decoded' = r.dec
              /\ last' = [op |-> "from_tlv", node |-> n, in |-> in, out |-> r]
    /\ UNCHANGED <<encoded, trips, tagVars, th, cur>>

CallToTlv ==
    /\ last = Idle
    /\ \E n \in LeafNames :
          last' = [op |-> "to_tlv", node |-> n, val |-> to_bytes(n, decoded),
                   out |-> to_tlv(n, decoded)]
    /\ UNCHANGED <<decoded, encoded, trips, tagVars, th, cur>>

\* from_tlv applied to what to_tlv just returned
CallFromTlvOfToTlv ==
    /\ last.op = "to_tlv"
    /\ last.out.ok
    /\ trips < MaxTrips
    /\ trips' = trips + 1
    /\ LET r == from_tlv(last.node, last.out.bytes, decoded)
       IN  /\ decoded' = r.dec
           /\ last' = [op |-> "from_tlv_of_to_tlv", node |-> last.node,
                       val |-> last.val.bytes, tlv |-> last.out.bytes, out |-> r]
    /\ UNCHANGED <<encoded, tagVars, th, cur>>

CallLeafDecode ==
    /\ last = Idle
    /\ \E n \in LeafNames, in \in Inputs :
          LET r == DataObject_decode(n, in.buf, decoded)
          IN  /\ decoded' = r.dec
              /\ last' = [op |-> "leaf_decode", node |-> n, in |-> in, out |-> r]
    /\ UNCHANGED <<encoded, trips, tagVars, th, cur>>

CallCollectionDecode ==
    /\ last = Idle
    /\ \E c \in Collections, in \in Inputs :
          LET r == Collection_decode(c, in.buf, decoded)
          IN  /\ decoded' = r.dec
              /\ last' = [op |-> "collection_decode", node |-> c, in |-> in, out |-> r]
    /\ UNCHANGED <<encoded, trips, tagVars, th, cur>>

CallChoiceDecode ==
    /\ last = Idle
    /\ \E c \in Choices, in \in Inputs :
          LET r == Choice_decode(c, in.buf, decoded)
          IN  /\ decoded' = r.dec
              /\ last' = [op |-> "choice_decode", node |-> c, in |-> in, out |-> r]
    /\ UNCHANGED <<encoded, trips, tagVars, th, cur>>

CallChoiceEncode ==
    /\ last = Idle
    /\ \E c \in Choices, d \in EncodeDicts :
          LET r == Choice_encode(c, d, decoded)
          IN  /\ decoded' = r.dec
              /\ last' = [op |-> "choice_encode", node |-> c, arg |-> d, out |-> r]
    /\ UNCHANGED <<encoded, trips, tagVars, th, cur>>

CallCollectionEncode ==
    /\ last = Idle
    /\ \E c \in Collections, d \in EncodeDicts :
          LET r == Collection_encode(c, d, decoded)
          IN  /\ decoded' = r.dec
              /\ last' = [op |-> "collection_encode", node |-> c, arg |-> d, out |-> r]
    /\ UNCHANGED <<encoded, trips, tagVars, th, cur>>

CallSequenceDecode ==
    /\ last = Idle
    /\ \E s \in Sequences, in \in Inputs :
          LET r == Sequence_decode(s, in.buf, decoded)
          IN  /\ decoded' = r.dec
              /\ last' = [op |-> "sequence_decode", node |-> s, in |-> in, out |-> r]
    /\ UNCHANGED <<encoded, trips, tagVars, th, cur>>

CallSequenceDecodeMulti ==
    /\ last = Idle
    /\ \E s \in Sequences, in \in Inputs :
          LET r == Sequence_decode_multi(s, in.buf, decoded)
          IN  /\ decoded' = r.dec
              /\ last' = [op |-> "sequence_decode_multi", node |-> s, in |-> in,
                          out |-> r]
    /\ UNCHANGED <<encoded, trips, tagVars, th, cur>>

\* encode applied to the list decode just returned
CallSequenceEncodeOfDecode ==
    /\ last.op = "sequence_decode"
    /\ last.out.ok
    /\ LET r == Sequence_encode(last.node, last.out.res, decoded)
       IN  /\ decoded' = r.dec
           /\ last' = [op |-> "sequence_encode_of_decode", node |-> last.node,
                       in |-> last.in, rem |-> last.out.rem, arg |-> last.out.res,
                       out |-> r]
    /\ UNCHANGED <<encoded, trips, tagVars, th, cur>>

\* encode_multi applied to the list decode_multi just returned
CallSequenceEncodeMultiOfDecodeMulti ==
    /\ last.op = "sequence_decode_multi"
    /\ last.out.ok
    /\ LET r == Sequence_encode_multi(last.node, last.out.res, decoded)
       IN  /\ decoded' = r.dec
           /\ last' = [op |-> "sequence_encode_multi_of_decode_multi",
                       node |-> last.node, in |-> last.in, rem |-> last.out.rem,
                       arg |-> last.out.res, out |-> r]
    /\ UNCHANGED <<encoded, trips, tagVars, th, cur>>

(***************************************************************************)
(* Two threads decoding on the same grammar objects.  A thread switch can  *)
(* fall between any two bytecodes; the only accesses to shared state are   *)
(* the store to `decoded` at the end of from_bytes and the load of it in   *)
(* to_dict, so each from_tlv and each to_dict is one step.                 *)
(***************************************************************************)
Threads == {1, 2}

\* the locals of a decode call about to start on buffer buf
ThreadStart(op, node, buf) ==
    [pc |-> "head", op |-> op, node |-> node, buf |-> buf, rem |-> buf,
     res |-> <<>>, obj |-> "", ok |-> FALSE, err |-> ""]

ThreadOff == [pc |-> "off"]

ThRaise(t, e) == [th EXCEPT ![t].pc = "done", ![t].ok = FALSE, ![t].err = e]
ThReturn(t) == [th EXCEPT ![t].pc = "done", ![t].ok = TRUE]

\* obj.from_tlv(remainder) run by thread t
ThFromTlv(t, obj, r) ==
    /\ decoded' = r.dec
    /\ th' = IF r.ok
             THEN [th EXCEPT ![t].pc = "to_dict", ![t].obj = obj, ![t].rem = r.rem]
             ELSE ThRaise(t, r.err)

\* DataObject.decode up to the return of from_tlv
ThLeafDecode(t) ==
    /\ th[t].pc = "head"
    /\ th[t].op = "leaf_decode"
    /\ CASE LeafHead(th[t].node, th[t].rem) = "index_error" ->
                th' = ThRaise(t, "IndexError") /\ decoded' = decoded
         [] LeafHead(th[t].node, th[t].rem) = "raise" ->
                th' = ThRaise(t, "ValueError") /\ decoded' = decoded
         [] OTHER -> ThFromTlv(t, th[t].node, from_tlv(th[t].node, th[t].rem, decoded))
    /\ UNCHANGED <<encoded, last, trips, tagVars, cur>>

\* one pass of the loop of DataObjectCollection.decode up to the return of
\* from_tlv
ThCollectionIter(t) ==
    /\ th[t].pc = "head"
    /\ th[t].op = "collection_decode"
    /\ CASE CollectionHead(th[t].node, th[t].rem) = "return" ->
                th' = ThReturn(t) /\ decoded' = decoded
         [] CollectionHead(th[t].node, th[t].rem) = "raise" ->
                th' = ThRaise(t, "ValueError") /\ decoded' = decoded
         [] OTHER ->
                ThFromTlv(t, th[t].node.members_by_tag[th[t].rem[1]],
                          from_tlv(th[t].node.members_by_tag[th[t].rem[1]],
                                   th[t].rem, decoded))
    /\ UNCHANGED <<encoded, last, trips, tagVars, cur>>

\* DataObjectChoice.decode up to the return of from_tlv
ThChoiceDecode(t) ==
    /\ th[t].pc = "head"
    /\ th[t].op = "choice_decode"
    /\ CASE ChoiceHead(th[t].node, th[t].rem) = "index_error" ->
                th' = ThRaise(t, "IndexError") /\ decoded' = decoded
         [] ChoiceHead(th[t].node, th[t].rem) = "return" ->
                th' = ThReturn(t) /\ decoded' = decoded
         [] ChoiceHead(th[t].node, th[t].rem) = "raise" ->
                th' = ThRaise(t, "ValueError") /\ decoded' = decoded
         [] OTHER ->
                ThFromTlv(t, th[t].node.members_by_tag[th[t].rem[1]],
                          from_tlv(th[t].node.members_by_tag[th[t].rem[1]],
                                   th[t].rem, decoded))
    /\ UNCHANGED <<encoded, last, trips, tagVars, cur>>

\* obj.to_dict(): the result is built from `decoded` as it is now
ThToDict(t) ==
    /\ th[t].pc = "to_dict"
    /\ th' = [th EXCEPT
                ![t].res = Append(th[t].res, to_dict(th[t].obj, decoded)),
                ![t].pc = IF th[t].op = "collection_decode" THEN "head" ELSE "done",
                ![t].ok = TRUE]
    /\ UNCHANGED <<decoded, encoded, last, trips, tagVars, cur>>

\* the calls a thread may be making
ThreadCalls(inputs) ==
    { ThreadStart("leaf_decode", n, in.buf) : n \in LeafNames, in \in inputs }
    \cup { ThreadStart("collection_decode", c, in.buf) : c \in Collections, in \in inputs }
    \cup { ThreadStart("choice_decode", c, in.buf) : c \in Choices, in \in inputs }

\* the second thread decodes one record of "a" whose value no input of the
\* first thread holds
OtherInputs == { [wf |-> TRUE, items |-> <<Rec(160, <<9>>)>>, buf |-> <<160, 1, 9>>] }

(***************************************************************************)
(* Grammar construction with + and |.                                      *)
(***************************************************************************)
NoObject == [class |-> "none"]

\* the operands a composition is applied to
Operands == { LeafNode(x) : x \in LeafNames } \cup Collections \cup Choices \cup Sequences

\* an operator returned or raised: `last` keeps the operands and the outcome
Composed(op, self, other, out) == [op |-> op, self |-> self, other |-> other, out |-> out]

\* cur after an operator returned or raised: the object when one was made
Made(out) == IF IsCollection(out) THEN out ELSE cur

\* DataObject + X
ComposeLeafAdd ==
    /\ \E x \in LeafNames, y \in Operands :
          /\ last' = Composed("add", LeafNode(x), y, DataObject_add(x, y))
          /\ cur' = Made(DataObject_add(x, y))
    /\ UNCHANGED <<decoded, encoded, trips, tagVars, th>>

\* DataObject | X
ComposeLeafOr ==
    /\ \E x \in LeafNames, y \in Operands :
          /\ last' = Composed("or", LeafNode(x), y, DataObject_or(x, y))
          /\ cur' = Made(DataObject_or(x, y))
    /\ UNCHANGED <<decoded, encoded, trips, tagVars, th>>

\* DataObjectCollection + DataObject
ComposeCollectionAddLeaf ==
    /\ cur.class = "DataObjectCollection"
    /\ Len(cur.members) < MaxMembers
    /\ \E x \in LeafNames :
          /\ last' = Composed("add", cur, LeafNode(x), Collection_add(cur, LeafNode(x)))
          /\ cur' = Made(Collection_add(cur, LeafNode(x)))
    /\ UNCHANGED <<decoded, encoded, trips, tagVars, th>>

\* DataObjectCollection + DataObjectCollection (a DataObjectChoice is one)
ComposeCollectionAddCollection ==
    /\ cur.class = "DataObjectCollection"
    /\ \E other \in Collections \cup Choices \cup {cur} :
          /\ Len(cur.members) + Len(other.members) <= MaxMembers
          /\ last' = Composed("add", cur, other, Collection_add(cur, other))
          /\ cur' = Made(Collection_add(cur, other))
    /\ UNCHANGED <<decoded, encoded, trips, tagVars, th>>

\* DataObjectCollection + DataObjectSequence
ComposeCollectionAddSequence ==
    /\ cur.class = "DataObjectCollection"
    /\ \E other \in Sequences :
          /\ last' = Composed("add", cur, other, Collection_add(cur, other))
          /\ cur' = Made(Collection_add(cur, other))
    /\ UNCHANGED <<decoded, encoded, trips, tagVars, th>>

\* DataObjectChoice | DataObject
ComposeChoiceOrLeaf ==
    /\ cur.class = "DataObjectChoice"
    /\ Len(cur.members) < MaxMembers
    /\ \E x \in LeafNames :
          /\ last' = Composed("or", cur, LeafNode(x), Choice_or(cur, LeafNode(x)))
          /\ cur' = Made(Choice_or(cur, LeafNode(x)))
    /\ UNCHANGED <<decoded, encoded, trips, tagVars, th>>

\* DataObjectChoice | DataObjectChoice
ComposeChoiceOrChoice ==
    /\ cur.class = "DataObjectChoice"
    /\ \E other \in Choices \cup {cur} :
          /\ Len(cur.members) + Len(other.members) <= MaxMembers
          /\ last' = Composed("or", cur, other, Choice_or(cur, other))
          /\ cur' = Made(Choice_or(cur, other))
    /\ UNCHANGED <<decoded, encoded, trips, tagVars, th>>

\* DataObjectChoice + X
ComposeChoiceAdd ==
    /\ cur.class = "DataObjectChoice"
    /\ \E other \in Operands \cup {cur} :
          /\ last' = Composed("add", cur, other, Choice_add(cur, other))
          /\ cur' = Made(Choice_add(cur, other))
    /\ UNCHANGED <<decoded, encoded, trips, tagVars, th>>

\* DataObjectSequence + X
ComposeSequenceAdd ==
    /\ \E self \in Sequences, other \in Operands :
          /\ last' = Composed("add", self, other, Sequence_add(self, other))
          /\ cur' = Made(Sequence_add(self, other))
    /\ UNCHANGED <<decoded, encoded, trips, tagVars, th>>

(***************************************************************************)
(* The tag codec run step by step: encode a tag dict, then parse the bytes.*)
(***************************************************************************)
TagDicts ==
    { TagDict(c, k, n) : c \in 0..3, k \in BOOLEAN, n \in 0..MaxTagNum }

NoParse == [ok |-> FALSE, err |-> "", tag |-> NoTag, rem |-> <<>>]

TagIdle ==
    /\ tin = NoTag
    /\ tpc = "off"
    /\ tag_bytes = <<>>
    /\ remain = 0
    /\ tout = NoParse

\* bertlv_encode_tag up to the loop: the single-byte form returns at once
EncodeTagStart ==
    /\ tpc = "start"
    /\ IF tin.tag <= 30
       THEN /\ tag_bytes' = <<TagFirstByte(BitAnd(tin.tag, 31), tin.constructed, tin.class)>>
            /\ remain' = remain
            /\ tpc' = "encoded"
       ELSE /\ tag_bytes' = <<TagFirstByte(31, tin.constructed, tin.class)>>
            /\ remain' = tin.tag
            /\ tpc' = "loop"
    /\ UNCHANGED <<tin, tout, doVars, th, cur>>

\* one iteration of `while True:`
EncodeTagStep ==
    /\ tpc = "loop"
    /\ Len(tag_bytes) < MaxTagBytes
    /\ LET it == EncodeTagIter(remain)
       IN  /\ tag_bytes' = Append(tag_bytes, it.byte)
           /\ remain' = it.remain
           /\ tpc' = IF it.remain = 0 THEN "encoded" ELSE "loop"
    /\ UNCHANGED <<tin, tout, doVars, th, cur>>

\* bertlv_parse_tag applied to what bertlv_encode_tag returned
ParseEncodedTag ==
    /\ tpc = "encoded"
    /\ tout' = bertlv_parse_tag(tag_bytes)
    /\ tpc' = "parsed"
    /\ UNCHANGED <<tin, tag_bytes, remain, doVars, th, cur>>

(***************************************************************************)
(* Specifications.                                                         *)
(***************************************************************************)
ThIdle == th = [t \in Threads |-> ThreadOff]
CurIdle == cur = NoObject

\* the tag codec: any tag dict is encoded, then parsed back
InitTag ==
    /\ tin \in TagDicts
    /\ tpc = "start"
    /\ tag_bytes = <<>>
    /\ remain = 0
    /\ tout = NoParse
    /\ DoIdle /\ ThIdle /\ CurIdle

NextTag == EncodeTagStart \/ EncodeTagStep \/ ParseEncodedTag

SpecTag == InitTag /\ [][NextTag]_vars

\* the grammar, called sequentially
Init == TagIdle /\ DoIdle /\ ThIdle /\ CurIdle

Next ==
    \/ CallFromTlv
    \/ CallToTlv
    \/ CallFromTlvOfToTlv
    \/ CallLeafDecode
    \/ CallCollectionDecode
    \/ CallChoiceDecode
    \/ CallChoiceEncode
    \/ CallCollectionEncode
    \/ CallSequenceDecode
    \/ CallSequenceDecodeMulti
    \/ CallSequenceEncodeOfDecode
    \/ CallSequenceEncodeMultiOfDecodeMulti
    \/ DropResult

Spec == Init /\ [][Next]_vars

\* two threads, each making one decode call; the second may not run at all
InitConc ==
    /\ th \in { [t \in Threads |-> IF t = 1 THEN c1 ELSE c2] :
                    c1 \in ThreadCalls(Inputs),
                    c2 \in ThreadCalls(OtherInputs) \cup {ThreadOff} }
    /\ TagIdle /\ DoIdle /\ CurIdle

NextConc ==
    \E t \in Threads :
        \/ ThLeafDecode(t)
        \/ ThCollectionIter(t)
        \/ ThChoiceDecode(t)
        \/ ThToDict(t)

SpecConc == InitConc /\ [][NextConc]_vars

\* grammar objects composed one from the other
InitCompose == TagIdle /\ DoIdle /\ ThIdle /\ CurIdle

NextCompose ==
    \/ ComposeLeafAdd
    \/ ComposeLeafOr
    \/ ComposeCollectionAddLeaf
    \/ ComposeCollectionAddCollection
    \/ ComposeChoiceOrLeaf
    \/ ComposeChoiceOrChoice
    \/ ComposeChoiceAdd
    \/ ComposeSequenceAdd
    \/ ComposeCollectionAddSequence

SpecCompose == InitCompose /\ [][NextCompose]_vars

\* the thread after a pass of the loop of decode_multi that never leaves the
\* loop on a repetition that consumed nothing
MultiNext_always(t, r) ==
    IF ~r.ok THEN ThRaise(t, r.err)
    ELSE [th EXCEPT
            ![t].res = IF r.res # <<>> THEN Append(th[t].res, r.res) ELSE th[t].res,
            ![t].rem = r.rem]

\* the thread after a pass of the loop of decode_multi in which self.decode
\* gave r
MultiNext(t, r) ==
    IF ~r.ok THEN ThRaise(t, r.err)
    ELSE [th EXCEPT
            ![t].res = IF r.res # <<>> THEN Append(th[t].res, r.res) ELSE th[t].res,
            ![t].rem = r.rem,
            ![t].pc = IF Len(r.rem) < Len(th[t].rem) THEN "head" ELSE "done",
            ![t].ok = ~(Len(r.rem) < Len(th[t].rem))]

\* one pass of the while loop of DataObjectSequence.decode_multi
ThMultiIter(t) ==
    /\ th[t].pc = "head"
    /\ th[t].op = "sequence_decode_multi"
    /\ IF Len(th[t].rem) = 0
       THEN th' = ThReturn(t) /\ decoded' = decoded
       ELSE /\ th' = MultiNext(t, Sequence_decode(th[t].node, th[t].rem, decoded))
            /\ decoded' = Sequence_decode(th[t].node, th[t].rem, decoded).dec
    /\ UNCHANGED <<encoded, last, trips, tagVars, cur>>

\* the calls that loop over a buffer
LoopCalls ==
    { ThreadStart("collection_decode", c, in.buf) : c \in Collections, in \in Inputs }
    \cup { ThreadStart("sequence_decode_multi", q, in.buf) : q \in Sequences, in \in Inputs }

\* one thread that makes one looping call
InitLoop ==
    /\ th \in { [t \in Threads |-> IF t = 1 THEN c ELSE ThreadOff] : c \in LoopCalls }
    /\ TagIdle /\ DoIdle /\ CurIdle

NextLoop ==
    \/ ThCollectionIter(1)
    \/ ThToDict(1)
    \/ ThMultiIter(1)

SpecLoop == InitLoop /\ [][NextLoop]_vars

\* the thread is not held up for ever between two passes of a loop
SpecLoopFair == SpecLoop /\ WF_vars(NextLoop)

(***************************************************************************)
(* A leaf with a two-byte tag, next to one with a one-byte tag.            *)
(***************************************************************************)
WideNames == {"a", "d"}
WideDecoded == [n \in WideNames |-> None]

CollAD == DataObject_add("a", LeafNode("d"))
ChoiceAD == DataObject_or("a", LeafNode("d"))

\* the objects decode is called on: the leaf itself, a collection and a
\* choice that hold it
WideTargets == {"leaf", "collection", "choice"}

\* the values decoded into "a", and what follows a record in a buffer
WideValues == { <<>>, <<0>>, <<7>>, <<0, 7>>, <<7, 0>>, <<7, 7>> }
WideTails == { <<>>, <<255>>, <<255, 0>> }

\* decode of the buffer by the target that belongs to leaf n
WideCall(target, n, binary, dec) ==
    CASE target = "leaf" -> DataObject_decode(n, binary, dec)
      [] target = "collection" -> Collection_decode(CollAD, binary, dec)
      [] target = "choice" -> Choice_decode(ChoiceAD, binary, dec)

\* decode of a record of "a" written by hand
WideDecode ==
    /\ last = Idle
    /\ \E target \in WideTargets, v \in WideValues, tail \in WideTails :
          LET r == WideCall(target, "a", <<160, Len(v)>> \o v \o tail, decoded)
          IN  /\ decoded' = r.dec
              /\ last' = [op |-> "wide_decode", node |-> "a", target |-> target,
                          out |-> r]
    /\ UNCHANGED <<encoded, trips, tagVars, th, cur>>

WideToTlv ==
    /\ last = Idle
    /\ \E n \in WideNames :
          last' = [op |-> "wide_to_tlv", node |-> n, out |-> to_tlv(n, decoded)]
    /\ UNCHANGED <<decoded, encoded, trips, tagVars, th, cur>>

\* decode applied to what to_tlv just returned, with or without bytes behind it
WideDecodeOwn ==
    /\ last.op = "wide_to_tlv"
    /\ last.out.ok
    /\ \E target \in WideTargets, tail \in WideTails :
          LET r == WideCall(target, last.node, last.out.bytes \o tail, decoded)
          IN  /\ decoded' = r.dec
              /\ last' = [op |-> "wide_decode_own", node |-> last.node,
                          target |-> target, tlv |-> last.out.bytes,
                          tail |-> tail, out |-> r]
    /\ UNCHANGED <<encoded, trips, tagVars, th, cur>>

InitWide ==
    /\ TagIdle /\ ThIdle /\ CurIdle
    /\ decoded = WideDecoded
    /\ encoded = InitEncoded
    /\ last = Idle
    /\ trips = 0

NextWide ==
    \/ WideDecode
    \/ WideToTlv
    \/ WideDecodeOwn
    \/ DropResult

SpecWide == InitWide /\ [][NextWide]_vars

(***************************************************************************)
(* Calls of the tag and length codecs, one after the other.                *)
(***************************************************************************)
\* the COMPREHENSION-TLV tags handed to comprehensiontlv_encode_tag
ComprTags == { ComprTag(c, n) : c \in BOOLEAN, n \in 0..MaxComprTagNum }

\* byte strings of up to n bytes drawn from the set b
RECURSIVE BytesUpTo(_, _)
BytesUpTo(b, n) ==
    IF n = 0 THEN {<<>>}
    ELSE BytesUpTo(b, n - 1)
         \cup { Append(x, y) : x \in { z \in BytesUpTo(b, n - 1) : Len(z) = n - 1 }, y \in b }

\* the first bytes that the tag parsers tell apart, and 0x81
TagBufferBytes == {0, 1, 127, 128, 129, 255}
TagBuffers == BytesUpTo(TagBufferBytes, MaxTagBuffer) \ {<<>>}

\* the lengths handed to bertlv_encode_len: the values at both ends of each
\* form, and others with the same number of octets
LengthDigits == {0, 1, 127, 128, 255}
Lengths == { d \in BytesUpTo(LengthDigits, MaxLenOctets) : BigNorm(d) = d }

\* the lengths handed to dgi_encode_len
DgiLengths == {0, 1, 127, 128, 254, 255, 256, 65534, 65535, 65536}

\* length fields, whole and cut short, and what follows them
LenBufferBytes == {0, 1, 5, 127, 128, 129, 130}
LenBuffers == BytesUpTo(LenBufferBytes, MaxLenBuffer) \ {<<>>}

\* the tags that start a record for the parse_one functions: one byte, the
\* two bytes of a multi-byte BER tag, the three bytes of a COMPREHENSION-TLV tag
OneHeads == { <<1>>, <<31, 1>>, <<127, 0, 1>> }

\* records for the parse_one functions: a tag and a length buffer
OneBuffers == { h \o b : h \in OneHeads, b \in LenBuffers }

CallComprTagRoundTrip ==
    /\ last = Idle
    /\ \E t \in ComprTags :
          last' = [op |-> "compr_tag_round_trip", arg |-> t,
                   enc |-> comprehensiontlv_encode_tag(t),
                   out |-> comprehensiontlv_parse_tag(comprehensiontlv_encode_tag(t))]
    /\ UNCHANGED <<decoded, encoded, trips, tagVars, th, cur>>

CallComprEncodeTagInt ==
    /\ last = Idle
    /\ \E n \in 0..MaxTagNum :
          last' = [op |-> "compr_encode_tag_int", arg |-> n,
                   enc |-> comprehensiontlv_encode_tag(ComprTagOfInt(n))]
    /\ UNCHANGED <<decoded, encoded, trips, tagVars, th, cur>>

CallComprParseTag ==
    /\ last = Idle
    /\ \E b \in TagBuffers :
          last' = [op |-> "compr_parse_tag", arg |-> b,
                   out |-> comprehensiontlv_parse_tag(b)]
    /\ UNCHANGED <<decoded, encoded, trips, tagVars, th, cur>>

CallComprParseTagRaw ==
    /\ last = Idle
    /\ \E b \in TagBuffers :
          last' = [op |-> "compr_parse_tag_raw", arg |-> b,
                   out |-> comprehensiontlv_parse_tag_raw(b)]
    /\ UNCHANGED <<decoded, encoded, trips, tagVars, th, cur>>

\* bertlv_parse_len on what bertlv_encode_len returned, when it returned
LenRoundTrip(n, e) ==
    [op |-> "len_round_trip", arg |-> n, enc |-> e,
     out |-> IF e.ok THEN bertlv_parse_len(e.bytes)
             ELSE [ok |-> FALSE, err |-> e.err, length |-> Big(0), rem |-> <<>>]]

CallLenRoundTrip ==
    /\ last = Idle
    /\ \E n \in Lengths : last' = LenRoundTrip(n, bertlv_encode_len(n))
    /\ UNCHANGED <<decoded, encoded, trips, tagVars, th, cur>>

\* dgi_parse_len on what dgi_encode_len returned, when it returned
DgiLenRoundTrip(n, e) ==
    [op |-> "dgi_len_round_trip", arg |-> n, enc |-> e,
     out |-> IF e.ok THEN dgi_parse_len(e.bytes)
             ELSE [ok |-> FALSE, err |-> e.err, length |-> 0, rem |-> <<>>]]

CallDgiLenRoundTrip ==
    /\ last = Idle
    /\ \E n \in DgiLengths : last' = DgiLenRoundTrip(n, dgi_encode_len(n))
    /\ UNCHANGED <<decoded, encoded, trips, tagVars, th, cur>>

CallParseLen ==
    /\ last = Idle
    /\ \E b \in LenBuffers :
          last' = [op |-> "parse_len", arg |-> b, out |-> bertlv_parse_len(b)]
    /\ UNCHANGED <<decoded, encoded, trips, tagVars, th, cur>>

CallBertlvParseOne ==
    /\ last = Idle
    /\ \E b \in OneBuffers :
          last' = [op |-> "bertlv_parse_one", arg |-> b, out |-> bertlv_parse_one(b)]
    /\ UNCHANGED <<decoded, encoded, trips, tagVars, th, cur>>

CallComprParseOne ==
    /\ last = Idle
    /\ \E b \in OneBuffers :
          last' = [op |-> "comprehensiontlv_parse_one", arg |-> b,
                   out |-> comprehensiontlv_parse_one(b)]
    /\ UNCHANGED <<decoded, encoded, trips, tagVars, th, cur>>

\* the buffers handed to bertlv_parse_tag_raw: bytes with and without the low
\* five bits set, with and without the continuation bit, and the padding byte
RawBufferBytes == {0, 1, 31, 129, 255}
RawBuffers == BytesUpTo(RawBufferBytes, MaxTagBuffer) \ {<<>>}

CallBertlvParseTagRaw ==
    /\ last = Idle
    /\ \E b \in RawBuffers :
          last' = [op |-> "bertlv_parse_tag_raw", arg |-> b,
                   out |-> bertlv_parse_tag_raw(b)]
    /\ UNCHANGED <<decoded, encoded, trips, tagVars, th, cur>>

\* a command set: SELECT for the classes 0X and A0, READ for the class A0
Commands ==
    CardCommandSet("cmds", { CardCommand("SELECT", 164, << <<"0", "X">>, <<"A", "0">> >>),
                             CardCommand("READ", 176, << <<"a", "0">> >>) })

\* the two-digit hex string of the byte n
HexOf(n) == <<HexChars[(n \div 16) + 1], HexChars[(n % 16) + 1]>>

\* the ins and the class bytes handed to lookup: an ins of each command and
\* one of none; each class byte as an int and as its hex string
InsArgs == {164, 176, 192}
ClaBytes == {0, 1, 10, 16, 160, 161}
ClaArgs ==
    {ClaNone} \cup { ClaInt(n) : n \in ClaBytes }
    \cup { ClaString(HexOf(n)) : n \in ClaBytes }
    \cup { ClaString(<<"A", "0">>) }

CallLookup ==
    /\ last = Idle
    /\ \E ins \in InsArgs, cla \in ClaArgs :
          last' = [op |-> "lookup", ins |-> ins, cla |-> cla,
                   out |-> lookup(Commands, ins, cla)]
    /\ UNCHANGED <<decoded, encoded, trips, tagVars, th, cur>>

InitCodec == TagIdle /\ DoIdle /\ ThIdle /\ CurIdle

NextCodec ==
    \/ CallComprTagRoundTrip
    \/ CallComprEncodeTagInt
    \/ CallComprParseTag
    \/ CallComprParseTagRaw
    \/ CallLenRoundTrip
    \/ CallDgiLenRoundTrip
    \/ CallParseLen
    \/ CallBertlvParseOne
    \/ CallComprParseOne
    \/ CallBertlvParseTagRaw
    \/ CallLookup
    \/ DropResult

SpecCodec == InitCodec /\ [][NextCodec]_vars

(***************************************************************************)
(* Properties.                                                             *)
(***************************************************************************)
DecodeOps ==
    {"from_tlv", "from_tlv_of_to_tlv", "leaf_decode", "collection_decode",
     "choice_decode", "sequence_decode", "sequence_decode_multi"}

\* C1: bertlv_parse_tag applied to bertlv_encode_tag(t) returns t and an empty
\* remainder, for every tag dict t
C1_TagRoundTrip ==
    tpc = "parsed" => tout.ok /\ tout.tag = tin /\ tout.rem = <<>>

\* C2: from_tlv applied to the output of to_tlv hands exactly the value bytes
\* to_tlv encoded to from_bytes, and returns an empty remainder
C2_LeafTlvRoundTrip ==
    last.op = "from_tlv_of_to_tlv" =>
        /\ last.out.ok
        /\ last.out.rem = <<>>
        /\ last.out.calls =
               << [leaf |-> last.node, do0 |-> LeafTag(last.node), val |-> last.val] >>

\* C3: for a canonical buffer that decode (decode_multi) accepted, encode
\* (encode_multi) of the decoded list returns the bytes decode consumed
C3_SequenceReencode ==
    (last.op \in {"sequence_encode_of_decode", "sequence_encode_multi_of_decode_multi"}
        /\ last.in.wf)
    => (last.out.ok /\ last.out.bytes \o last.rem = last.in.buf)

\* C5: a decode or encode call leaves the `decoded` and `encoded` fields of
\* every DataObject as they were
C5_NodeStateUnchanged ==
    [][(last'.op \in DecodeOps \cup {"choice_encode"})
          => (decoded' = decoded /\ encoded' = encoded)]_vars

\* a record item the member of collection c with its tag takes: a
\* TL0_DataObject only takes an empty value
MemberRecord(c, it) ==
    /\ ~it.pad
    /\ it.tag \in DOMAIN c.members_by_tag
    /\ LeafClass(c.members_by_tag[it.tag]) = "TL0_DataObject" => it.val = <<>>

\* C7: DataObjectCollection.decode of well-formed records of members returns
\* one result per record, in input order, each by the member with the
\* record's tag, and an empty remainder; a record with a tag that no member
\* has makes the decode fail
C7_CollectionDecode ==
    (last.op = "collection_decode" /\ last.in.wf) =>
        LET its == last.in.items
            c == last.node
        IN  /\ (\A i \in DOMAIN its : MemberRecord(c, its[i])) =>
                  /\ last.out.ok
                  /\ last.out.rem = <<>>
                  /\ Len(last.out.res) = Len(its)
                  /\ \A i \in DOMAIN its :
                        last.out.res[i][1].name = c.members_by_tag[its[i].tag]
            /\ (\E i \in DOMAIN its :
                    /\ ~its[i].pad
                    /\ its[i].tag \notin DOMAIN c.members_by_tag
                    /\ \A j \in 1..(i - 1) : MemberRecord(c, its[j]))
                  => ~last.out.ok

\* C8: DataObjectSequence.decode takes its elements in declared order: on
\* the sequence (a, b), a's record then b's yields [a's result, b's result]
\* and the bytes after them, b's record then a's fails; a Choice element that
\* sees the 0xFF byte adds no result and consumes nothing
C8_SequenceOrder ==
    (last.op = "sequence_decode" /\ last.in.wf) =>
        LET its == last.in.items
        IN  /\ (last.node = SeqAB /\ Len(its) >= 2 /\ ~its[1].pad /\ ~its[2].pad) =>
                  /\ (its[1].tag = LeafTag("a") /\ its[2] = Rec(LeafTag("b"), <<>>)) =>
                        /\ last.out.ok
                        /\ last.out.res =
                              << to_dict("a", [InitDecoded EXCEPT !["a"] = BytesVal(its[1].val)]),
                                 to_dict("b", [InitDecoded EXCEPT !["b"] = LeafVal("b")]) >>
                        /\ last.out.rem = Flatten(SubSeq(its, 3, Len(its)))
                  /\ (its[1].tag = LeafTag("b") /\ its[2].tag = LeafTag("a")) =>
                        ~last.out.ok
            /\ (last.node = SeqChoices /\ Len(its) >= 1 /\ its[1].pad) =>
                  /\ last.out.ok
                  /\ last.out.res = <<>>
                  /\ last.out.rem = last.in.buf

\* C9: from_bytes is only invoked by a from_tlv whose buffer starts with the
\* tag of the instance; from_tlv and decode of a DataObject raise without
\* invoking from_bytes when the first byte is another one, whatever the node
\* the call went through
C9_TagGuardsCodec ==
    last.op \in DecodeOps =>
        /\ \A k \in DOMAIN last.out.calls :
              last.out.calls[k].do0 = LeafTag(last.out.calls[k].leaf)
        /\ (/\ last.op \in {"from_tlv", "leaf_decode"}
            /\ last.in.buf # <<>>
            /\ last.in.buf[1] # LeafTag(last.node))
           => (~last.out.ok /\ last.out.calls = <<>>)

\* reached: a sequence decode whose first element handed its record to
\* from_bytes and whose second element raised on the tag of the next record
C9_Witness ==
    /\ last.op = "sequence_decode"
    /\ last.node = SeqAB
    /\ ~last.out.ok
    /\ last.out.err = "ValueError"
    /\ Len(last.out.calls) = 1

\* C10: the direct members of every Collection or Choice composed with + and |
\* have pairwise distinct tags
C10_DistinctTags ==
    IsCollection(cur) =>
        \A i, j \in DOMAIN cur.members :
            i # j => LeafTag(cur.members[i]) # LeafTag(cur.members[j])

\* the result the decode call of thread t returns when no other call runs
AloneResult(c) ==
    CASE c.op = "leaf_decode" -> DataObject_decode(c.node, c.buf, InitDecoded)
      [] c.op = "collection_decode" -> Collection_decode(c.node, c.buf, InitDecoded)
      [] c.op = "choice_decode" -> Choice_decode(c.node, c.buf, InitDecoded)

\* C4: each of two interleaved decode calls returns the values decoded from
\* its own buffer
C4_OwnValue ==
    \A t \in Threads :
        (th[t].pc = "done" /\ th[t].ok) => th[t].res = AloneResult(th[t]).res

\* a nonempty buffer of 0xFF bytes only
AllPadding(buf) == buf # <<>> /\ \A i \in DOMAIN buf : buf[i] = 255

\* C6: when the next tag byte is 0xFF, DataObjectCollection.decode returns the
\* results gathered so far and DataObjectChoice.decode returns None, both with
\* the remainder from that byte on; a buffer of 0xFF bytes only decodes to an
\* empty result without an error
C6_Sentinel ==
    /\ [][\A t \in Threads :
            (/\ th[t].pc = "head"
             /\ th[t].op \in {"collection_decode", "choice_decode"}
             /\ th[t].rem # <<>>
             /\ th[t].rem[1] = 255
             /\ th'[t] # th[t])
            => (/\ th'[t].pc = "done"
                /\ th'[t].ok
                /\ th'[t].res = th[t].res
                /\ th'[t].rem = th[t].rem)]_vars
    /\ [](\A t \in Threads :
            (/\ th[t].pc = "done"
             /\ th[t].op \in {"collection_decode", "choice_decode"}
             /\ AllPadding(th[t].buf))
            => (th[t].ok /\ th[t].res = <<>> /\ th[t].rem = th[t].buf))

\* reached: a Collection decode that returned at a 0xFF byte after it had
\* gathered a result
C6_Witness ==
    \E t \in Threads :
        /\ th[t].pc = "done"
        /\ th[t].op = "collection_decode"
        /\ th[t].ok
        /\ Len(th[t].res) = 1
        /\ th[t].rem # <<>>
        /\ th[t].rem[1] = 255

\* C11: comprehensiontlv_parse_tag applied to comprehensiontlv_encode_tag(t)
\* returns t and an empty remainder, for every tag number 0..0x7FFF and either
\* comprehension flag
C11_ComprTagRoundTrip ==
    last.op = "compr_tag_round_trip" =>
        (last.out.ok /\ last.out.tag = last.arg /\ last.out.rem = <<>>)

\* a buffer whose first byte is 0x00 or 0x80, or 0xFF before another byte
\* than 0xFF
IllegalComprTag(b) ==
    \/ b[1] \in {0, 128}
    \/ (b[1] = 255 /\ Len(b) >= 2 /\ b[2] # 255)

\* C12: comprehensiontlv_parse_tag and comprehensiontlv_parse_tag_raw raise on
\* a buffer that starts with 0x00 or 0x80, or with 0xFF and another byte than
\* 0xFF; comprehensiontlv_parse_tag reads a buffer that starts with 0x01 as
\* {comprehension: False, tag: 1}
C12_IllegalComprTag ==
    /\ (last.op \in {"compr_parse_tag", "compr_parse_tag_raw"}
            /\ IllegalComprTag(last.arg))
       => ~last.out.ok
    /\ (last.op = "compr_parse_tag" /\ last.arg[1] = 1)
       => (last.out.ok /\ last.out.tag = ComprTag(FALSE, 1))

\* reached: comprehensiontlv_parse_tag_raw raised on 0xFF before a byte that
\* is not 0xFF
C12_Witness ==
    /\ last.op = "compr_parse_tag_raw"
    /\ last.arg = <<255, 1>>
    /\ ~last.out.ok
    /\ last.out.err = "ValueError"

\* C13: comprehensiontlv_parse_tag_raw returns (None, the buffer) without
\* raising when the buffer is the byte 0xFF alone or starts with 0xFF 0xFF
C13_EndOfData ==
    (/\ last.op = "compr_parse_tag_raw"
     /\ (last.arg = <<255>>
            \/ (Len(last.arg) >= 2 /\ last.arg[1] = 255 /\ last.arg[2] = 255)))
    => (last.out.ok /\ last.out.none /\ last.out.rem = last.arg)

\* C14: bertlv_parse_len applied to bertlv_encode_len(n) returns n and an
\* empty remainder for every n in 0..0xFFFFFFFF, and dgi_parse_len applied to
\* dgi_encode_len(n) does for every n in 0..0xFFFF
C14_LenRoundTrip ==
    /\ (last.op = "len_round_trip" /\ BigLeq(last.arg, <<255, 255, 255, 255>>))
       => (last.out.ok /\ last.out.length = last.arg /\ last.out.rem = <<>>)
    /\ (last.op = "dgi_len_round_trip" /\ last.arg <= 65535)
       => (last.out.ok /\ last.out.length = last.arg /\ last.out.rem = <<>>)

\* reached: the round trip of the length 0xFFFFFFFF
C14_Witness ==
    /\ last.op = "len_round_trip"
    /\ last.arg = <<255, 255, 255, 255>>
    /\ last.enc.bytes = <<132, 255, 255, 255, 255>>
    /\ last.out.ok

\* C15: bertlv_encode_len(n) returns the single byte n for n < 0x80, the byte
\* 0x80|k and the k-byte big-endian value of n with a non-zero first octet,
\* k in 1..4, for n in 0x80..0xFFFFFFFF, and raises for n > 0xFFFFFFFF
C15_MinimalLen ==
    last.op = "len_round_trip" =>
        IF BigLess(last.arg, <<128>>)
        THEN last.enc.ok /\ Len(last.enc.bytes) = 1
                /\ Big(last.enc.bytes[1]) = last.arg
        ELSE IF BigLeq(last.arg, <<255, 255, 255, 255>>)
        THEN /\ last.enc.ok
             /\ Len(last.enc.bytes) \in 2..5
             /\ last.enc.bytes[1] = 128 + (Len(last.enc.bytes) - 1)
             /\ last.enc.bytes[2] # 0
             /\ Tail(last.enc.bytes) = last.arg
        ELSE ~last.enc.ok

\* reached: 65536, the smallest length of three octets, and its encoding
C15_Witness ==
    /\ last.op = "len_round_trip"
    /\ last.arg = <<1, 0, 0>>
    /\ last.enc.bytes = <<131, 1, 0, 0>>

\* C16: bertlv_parse_len raises when the first byte of a long-form length
\* announces more length octets than the buffer holds
C16_TruncatedLen ==
    (/\ last.op = "parse_len"
     /\ last.arg[1] > 128
     /\ Len(last.arg) < 1 + (last.arg[1] - 128))
    => ~last.out.ok

\* C17: bertlv_parse_len raises on the length byte 0x80, and so do
\* bertlv_parse_one and comprehensiontlv_parse_one on a record with it
C17_IndefiniteLen ==
    /\ (last.op = "parse_len" /\ last.arg[1] = 128) => ~last.out.ok
    /\ (/\ last.op \in {"bertlv_parse_one", "comprehensiontlv_parse_one"}
        /\ Len(last.arg) >= 2
        /\ last.arg[2] = 128)
       => ~last.out.ok

\* a buffer whose first record has the tag of leaf n and a length byte that
\* announces more value bytes than the buffer holds
ShortRecord(buf, n) ==
    /\ Len(buf) >= 2
    /\ buf[1] = LeafTag(n)
    /\ buf[2] < 128
    /\ buf[2] > Len(buf) - 2

\* C18: from_tlv raises on a record whose length byte announces more value
\* bytes than the buffer holds, and so do DataObjectCollection.decode and
\* DataObjectChoice.decode when the record has the tag of a member
C18_ShortRecord ==
    /\ (last.op = "from_tlv" /\ ShortRecord(last.in.buf, last.node))
       => ~last.out.ok
    /\ (/\ last.op \in {"collection_decode", "choice_decode"}
        /\ \E i \in DOMAIN last.node.members : ShortRecord(last.in.buf, last.node.members[i]))
       => ~last.out.ok

\* C19: DataObjectChoice.decode on a buffer that starts with a record of a
\* member returns the result of the member with that tag for that record and
\* all the bytes after that record
C19_ChoiceOneRecord ==
    (/\ last.op = "choice_decode"
     /\ last.in.wf
     /\ last.in.items # <<>>
     /\ MemberRecord(last.node, last.in.items[1]))
    => LET it == last.in.items[1]
           obj == last.node.members_by_tag[it.tag]
       IN  /\ last.out.ok
           /\ last.out.res =
                 << to_dict(obj, [InitDecoded EXCEPT ![obj] =
                                     IF LeafClass(obj) = "TL0_DataObject"
                                     THEN LeafVal(obj) ELSE BytesVal(it.val)]) >>
           /\ last.out.rem = Flatten(Tail(last.in.items))

\* C20: DataObjectChoice.encode raises unless the dict holds exactly one
\* name and that name is a member's; then it returns the tag of that member,
\* the length of the value and the value
C20_ChoiceEncodeOneName ==
    last.op = "choice_encode" =>
        IF Len(last.arg) = 1 /\ last.arg[1].name \in DOMAIN last.node.members_by_name
        THEN /\ last.out.ok
             /\ last.out.bytes =
                   ItemBytes(Rec(LeafTag(last.arg[1].name), last.arg[1].decoded.b))
        ELSE ~last.out.ok

\* the alternatives or elements an operand adds on the right: its own when
\* it is of class cls, else the operand itself
RightPart(other, cls) ==
    IF other.class # cls THEN <<other>>
    ELSE IF cls = "DataObjectSequence" THEN other.sequence
    ELSE other.members

\* C23: + with a DataObjectChoice as either operand raises TypeError; | on a
\* Choice and a Choice or a Leaf returns a Choice of the left operand's
\* alternatives followed by the right operand's
C23_ChoiceNotAdditive ==
    /\ (/\ last.op = "add"
        /\ "DataObjectChoice" \in {last.self.class, last.other.class})
       => last.out = TypeError
    /\ (/\ last.op = "or"
        /\ last.self.class = "DataObjectChoice"
        /\ last.other.class \in {"DataObjectChoice", "DataObject"})
       => /\ last.out.class = "DataObjectChoice"
          /\ last.out.members =
                last.self.members
                \o (IF last.other.class = "DataObject" THEN <<last.other.name>>
                    ELSE last.other.members)

\* C27: DataObjectSequence + X returns a DataObjectSequence of the left
\* sequence's elements followed by X, or by X's elements when X is a
\* DataObjectSequence, for X a DataObject, DataObjectChoice or
\* DataObjectSequence
C27_SequenceAdd ==
    (/\ last.op = "add"
     /\ last.self.class = "DataObjectSequence"
     /\ last.other.class \in {"DataObject", "DataObjectChoice", "DataObjectSequence"})
    => last.out = NewSequence(last.self.sequence
                                \o RightPart(last.other, "DataObjectSequence"))

\* the TLV records of the (name, value) entries of d, one after the other
RECURSIVE EntryRecords(_)
EntryRecords(d) ==
    IF d = <<>> THEN <<>>
    ELSE ItemBytes(Rec(LeafTag(d[1].name), d[1].decoded.b)) \o EntryRecords(Tail(d))

\* C21: DataObjectCollection.encode returns the TLV encodings of the entries
\* by the members with their names, in list order, and raises when a name is
\* not a member's
C21_CollectionEncode ==
    last.op = "collection_encode" =>
        IF \A i \in DOMAIN last.arg : last.arg[i].name \in DOMAIN last.node.members_by_name
        THEN last.out.ok /\ last.out.bytes = EntryRecords(last.arg)
        ELSE ~last.out.ok

\* the names element e of a sequence encodes
ElementNames(e) ==
    IF e.class = "DataObject" THEN {e.name} ELSE DOMAIN e.members_by_name

\* values holds one dict of one name per element of s, a name of that element
ValuesOf(s, values) ==
    /\ Len(values) = Len(s.sequence)
    /\ \A i \in DOMAIN values :
          Len(values[i]) = 1 /\ values[i][1].name \in ElementNames(s.sequence[i])

\* the encodings of the elements' values, one after the other
RECURSIVE ValueRecords(_)
ValueRecords(values) ==
    IF values = <<>> THEN <<>>
    ELSE EntryRecords(values[1]) \o ValueRecords(Tail(values))

\* the encodings of the repetitions, one after the other
RECURSIVE RepetitionRecords(_)
RepetitionRecords(reps) ==
    IF reps = <<>> THEN <<>>
    ELSE ValueRecords(reps[1]) \o RepetitionRecords(Tail(reps))

\* C22: DataObjectSequence.encode returns the encodings of values[i] by
\* element i, in declared order, for DataObject elements and for Choice
\* elements, and encode_multi the encodings of the repetitions in list order
C22_SequenceEncode ==
    /\ (last.op = "sequence_encode_of_decode" /\ ValuesOf(last.node, last.arg))
       => (last.out.ok /\ last.out.bytes = ValueRecords(last.arg))
    /\ (/\ last.op = "sequence_encode_multi_of_decode_multi"
        /\ \A i \in DOMAIN last.arg : ValuesOf(last.node, last.arg[i]))
       => (last.out.ok /\ last.out.bytes = RepetitionRecords(last.arg))

\* C25: every pass of the loop of bertlv_encode_tag leaves a remaining value
\* smaller than the one it started with, so the loop ends
C25_EncodeTagProgress ==
    [][tpc = "loop" => remain' < remain]_vars

\* the outcome of the tag parser that the parse_one function named op calls
OneTag(op, binary) ==
    IF op = "bertlv_parse_one"
    THEN bertlv_parse_tag(binary)
    ELSE comprehensiontlv_parse_tag(binary)

\* the number of bytes of the buffer arg in front of the value returned
HeaderLen(arg, out) == Len(arg) - Len(out.value) - Len(out.rem)

\* C26: what bertlv_parse_one and comprehensiontlv_parse_one return cuts the
\* input into tag bytes, length bytes, value and remainder, in this order and
\* with nothing left out; the tag and the length returned are what the tag
\* bytes and the length bytes hold; the value has `length` bytes when that
\* many follow the header and all the bytes that follow it otherwise
C26_ParseOneSlices ==
    (last.op \in {"bertlv_parse_one", "comprehensiontlv_parse_one"} /\ last.out.ok)
    => /\ OneTag(last.op, last.arg).ok
       /\ HeaderLen(last.arg, last.out) >= Len(last.arg) - Len(OneTag(last.op, last.arg).rem)
       /\ last.arg = Slice(last.arg, 0, HeaderLen(last.arg, last.out))
                      \o last.out.value \o last.out.rem
       /\ last.out.tag = OneTag(last.op, last.arg).tag
       /\ OneTag(last.op, Slice(last.arg, 0, Len(last.arg) - Len(OneTag(last.op, last.arg).rem))).rem = <<>>
       /\ bertlv_parse_len(Slice(last.arg,
                                 Len(last.arg) - Len(OneTag(last.op, last.arg).rem),
                                 HeaderLen(last.arg, last.out)))
            = [ok |-> TRUE, err |-> "", length |-> last.out.length, rem |-> <<>>]
       /\ Len(last.out.value)
            = BigClamp(last.out.length, Len(last.out.value) + Len(last.out.rem))

\* bertlv_parse_one cut a record with a two-byte tag into its value and the
\* byte behind it, and comprehensiontlv_parse_one returned a value cut short
C26_Witness ==
    \/ /\ last.op = "bertlv_parse_one"
       /\ last.arg = <<31, 1, 1, 5, 0>>
       /\ last.out.ok
       /\ last.out.value = <<5>>
       /\ last.out.rem = <<0>>
    \/ /\ last.op = "comprehensiontlv_parse_one"
       /\ last.arg = <<127, 0, 1, 5, 1>>
       /\ last.out.ok
       /\ last.out.value = <<1>>
       /\ last.out.rem = <<>>

\* the buffer is the lone padding byte or starts with two padding bytes
IsPadding(binary) ==
    \/ binary = <<255>>
    \/ Len(binary) >= 2 /\ binary[1] = 255 /\ binary[2] = 255

\* the number of bytes of the tag at the start of the buffer, 0 when the
\* buffer ends before the tag does
TagLength(binary) ==
    IF Len(binary) = 0 THEN 0
    ELSE IF BitAnd(binary[1], 31) <= 30 THEN 1
    ELSE IF \E k \in 2..Len(binary) : binary[k] < 128
    THEN CHOOSE k \in 2..Len(binary) :
            binary[k] < 128 /\ \A j \in 2..(k - 1) : binary[j] >= 128
    ELSE 0

\* the big-endian bytes of the integer with the digits x
RawBytes(x) == IF x = <<>> THEN <<0>> ELSE x

\* C29: bertlv_parse_tag_raw returns None and the input exactly on the lone
\* byte 0xFF and on a buffer that starts with 0xFF 0xFF; on every other
\* buffer that holds a whole tag it returns an integer whose big-endian bytes
\* are the bytes of the tag, and the bytes behind the tag
C29_RawTag ==
    last.op = "bertlv_parse_tag_raw"
    => /\ (last.out.ok /\ last.out.none) <=> IsPadding(last.arg)
       /\ (last.out.ok /\ last.out.none) => last.out.rem = last.arg
       /\ (~IsPadding(last.arg) /\ TagLength(last.arg) > 0)
          => /\ last.out.ok
             /\ RawBytes(last.out.tag) = Slice(last.arg, 0, TagLength(last.arg))
             /\ last.out.rem = SliceFrom(last.arg, TagLength(last.arg))
       /\ (~IsPadding(last.arg) /\ TagLength(last.arg) = 0) => ~last.out.ok

\* bertlv_parse_tag_raw returned a two-byte tag and the byte behind it, or
\* None on a buffer that starts with two padding bytes
C29_Witness ==
    /\ last.op = "bertlv_parse_tag_raw"
    /\ last.out.ok
    /\ \/ last.arg = <<31, 1, 0>> /\ last.out.tag = <<31, 1>> /\ last.out.rem = <<0>>
       \/ last.arg = <<255, 255, 1>> /\ last.out.none

\* the class byte as its two-digit hex string in lower case
ClaHex(cla) == LowerStr(IF cla.k = "str" THEN cla.s ELSE HexOf(cla.n))

\* the class matches a pattern of the command position by position, x in the
\* pattern standing for any digit
ClaMatches(cmd, hex) ==
    \E i \in 1..Len(cmd.cla_list) :
        \A j \in 1..2 : cmd.cla_list[i][j] = "x" \/ cmd.cla_list[i][j] = hex[j]

\* C30: lookup returns the command registered under ins exactly when the
\* class byte is left out or matches one of the patterns of the command, and
\* None otherwise; an int and its two-digit hex string get the same answer
C30_Lookup ==
    last.op = "lookup"
    => last.out = IF /\ last.ins \in DOMAIN Commands.cmds
                     /\ \/ last.cla.k = "None"
                        \/ ClaMatches(Commands.cmds[last.ins], ClaHex(last.cla))
                  THEN <<Commands.cmds[last.ins]>>
                  ELSE <<>>

\* C28: decode of what to_tlv of a leaf returned succeeds, hands the leaf its
\* value and returns what follows the record, whether the tag of the leaf has
\* one byte or two, and whether decode is called on the leaf, on a
\* collection or on a choice that holds it
C28_WideTagLeaf ==
    last.op = "wide_decode_own"
    => /\ last.out.ok
       /\ last.out.rem = last.tail
       /\ \E i \in DOMAIN last.out.res : last.out.res[i][1].name = last.node

\* a pass of a loop by thread t, from the test of the loop on
LoopPass(t) == th[t].pc = "head" /\ th'[t] # th[t]

\* C24: DataObjectCollection.decode and DataObjectSequence.decode_multi end
\* on every buffer: a pass of the loop returns, raises or goes on with a
\* remainder shorter than the one it started with; decode_multi returns with
\* the bytes it was looking at as soon as a repetition consumes none of them
C24_LoopsTerminate ==
    /\ [][\A t \in Threads :
            LoopPass(t)
            => \/ th'[t].pc = "done"
               \/ Len(th'[t].rem) < Len(th[t].rem)]_vars
    /\ [][\A t \in Threads :
            (/\ LoopPass(t)
             /\ th[t].op = "sequence_decode_multi"
             /\ Len(th[t].rem) > 0
             /\ Sequence_decode(th[t].node, th[t].rem, decoded).ok
             /\ Sequence_decode(th[t].node, th[t].rem, decoded).rem = th[t].rem)
            => /\ th'[t].pc = "done"
               /\ th'[t].ok
               /\ th'[t].rem = th[t].rem]_vars
    /\ <>(\A t \in Threads : th[t].pc \in {"done", "off"})

\* decode_multi took the record of "a" in a first repetition and returned
\* the padding byte when the second repetition consumed nothing
C24_Witness ==
    /\ th[1].op = "sequence_decode_multi"
    /\ th[1].node = SeqChoices
    /\ th[1].buf = <<160, 0, 255>>
    /\ th[1].pc = "done"
    /\ th[1].ok
    /\ Len(th[1].res) = 1
    /\ th[1].rem = <<255>>

=============================================================================
